---- MODULE Spec2Model ----
(***************************************************************************)
(* AetherLink control plane: session authentication (nonce replay cache,   *)
(* trust store, verify_session_request) and the connection state machine.  *)
(*   crates/aetherlink-core/src/security.rs                                *)
(*   crates/aetherlink-core/src/lib.rs                                     *)
(*   apps/aetherlink-node/src/main.rs                                      *)
(***************************************************************************)
EXTENDS Integers, Sequences, FiniteSets, TLC

VARIABLES
    nonce_cache,    \* NonceReplayCache {retention_ms, seen}
    trusted_peers,  \* TrustedPeers.by_device_code : device_code -> TrustedPeerRecord
    machine,        \* ConnectionStateMachine {state, timing, reconnect_elapsed_ms, reconnect_attempts}
    io,             \* the call in progress / the last call and what it returned
    hist,           \* history of the calls made so far (what the claims quantify over)
    app,            \* node -> App (main.rs): the engine state of each running node
    net             \* the swarm: clock, connections, control messages in flight

vars == <<nonce_cache, trusted_peers, machine, io, hist, app, net>>

(***************************************************************************)
(* Program constants (security.rs).                                        *)
(***************************************************************************)
MIN_NONCE_BYTES == 12
DEFAULT_ALLOWED_SKEW_MS == 30000
DEFAULT_REPLAY_RETENTION_MS == 60000
LAST_SEEN_PERSIST_INTERVAL_MS == 60000

(***************************************************************************)
(* Bounds of the model.                                                    *)
(***************************************************************************)
NumKeys == 2        \* identity keypairs in the world
MaxTick == 2        \* timestamps range over 0 .. MaxTick half-minutes (and one ms later)
MaxWaits == 2       \* direct register_backoff_wait calls between two handshakes
MaxLosses == 3      \* accepted PathLost triggers that hist counts

None == <<>>
Some(x) == <<x>>
IsSome(o) == o # <<>>
Unwrap(o) == o[1]

Max(a, b) == IF a >= b THEN a ELSE b
Min(a, b) == IF a <= b THEN a ELSE b
Abs(a) == IF a < 0 THEN 0 - a ELSE a

Keys == 1 .. NumKeys

\* No node is running: the value of app and net in the specifications of the
\* library calls, which have no engine around them.
NoApp == << >>
NoNet == << >>

\* Timestamps handed to the calls: multiples of 30 s and the millisecond after.
Times == { k * DEFAULT_ALLOWED_SKEW_MS + d : k \in 0 .. MaxTick, d \in {0, 1} }

(***************************************************************************)
(* NonceReplayCache                                                        *)
(***************************************************************************)
NonceReplayCache_new(retention_ms) ==
    [ retention_ms |-> Max(retention_ms, 1), seen |-> << >> ]

NonceReplayCache_default == NonceReplayCache_new(DEFAULT_REPLAY_RETENTION_MS)

\* seen is a map nonce -> unix_ms, kept as a function on the stored nonces.
SeenKeys(cache) == DOMAIN cache.seen

evict_expired_DropsFuture(cache, now_unix_ms) ==
    LET keep == { n \in SeenKeys(cache) :
                    /\ cache.seen[n] <= now_unix_ms
                    /\ now_unix_ms - cache.seen[n] <= cache.retention_ms }
    IN  [ cache EXCEPT !.seen = [ n \in keep |-> cache.seen[n] ] ]

evict_expired_Strict(cache, now_unix_ms) ==
    LET keep == { n \in SeenKeys(cache) :
                    IF cache.seen[n] > now_unix_ms
                    THEN TRUE
                    ELSE now_unix_ms - cache.seen[n] < cache.retention_ms }
    IN  [ cache EXCEPT !.seen = [ n \in keep |-> cache.seen[n] ] ]

evict_expired(cache, now_unix_ms) ==
    LET keep == { n \in SeenKeys(cache) :
                    IF cache.seen[n] > now_unix_ms
                    THEN TRUE
                    ELSE now_unix_ms - cache.seen[n] <= cache.retention_ms }
    IN  [ cache EXCEPT !.seen = [ n \in keep |-> cache.seen[n] ] ]

check_and_store_Forgets(cache, nonce, now_unix_ms) ==
    LET ev == evict_expired(cache, now_unix_ms)
    IN  IF nonce \in DOMAIN ev.seen
        THEN [ ok |-> FALSE, err |-> "ReplayDetected", cache |-> ev ]
        ELSE [ ok |-> TRUE, err |-> "", cache |-> ev ]

\* Result {ok, err, cache}: the cache is the cache after the call, on both paths.
check_and_store(cache, nonce, now_unix_ms) ==
    LET ev == evict_expired(cache, now_unix_ms)
    IN  IF nonce \in DOMAIN ev.seen
        THEN [ ok |-> FALSE, err |-> "ReplayDetected", cache |-> ev ]
        ELSE [ ok |-> TRUE, err |-> "",
               cache |-> [ ev EXCEPT !.seen =
                             [ n \in (DOMAIN ev.seen) \cup {nonce} |->
                                 IF n = nonce THEN now_unix_ms ELSE ev.seen[n] ] ] ]

(***************************************************************************)
(* Byte strings, keys and peer ids (libp2p identity, as security.rs uses   *)
(* it).  A byte string is a sequence of 0..255; a public key is known by   *)
(* its index in Keys.                                                      *)
(***************************************************************************)
HexDigits ==
    << "0", "1", "2", "3", "4", "5", "6", "7", "8", "9", "a", "b", "c", "d", "e", "f" >>

hex_nibble_to_char(v) == IF v \in 0 .. 15 THEN HexDigits[v + 1] ELSE "0"

encode_hex(bytes) ==
    [ i \in 1 .. 2 * Len(bytes) |->
        IF i % 2 = 1
        THEN hex_nibble_to_char(bytes[(i + 1) \div 2] \div 16)
        ELSE hex_nibble_to_char(bytes[i \div 2] % 16) ]

\* Some(nibble) or None (TrustStoreCorrupt: invalid hex char).
char_to_hex_nibble(c) ==
    IF \E v \in 0 .. 15 : HexDigits[v + 1] = c
    THEN Some(CHOOSE v \in 0 .. 15 : HexDigits[v + 1] = c)
    ELSE IF c \in { "A", "B", "C", "D", "E", "F" }
    THEN Some(CHOOSE v \in 10 .. 15 :
                 << "A", "B", "C", "D", "E", "F" >>[v - 9] = c)
    ELSE None

\* Some(bytes) or None (TrustStoreCorrupt: odd length or invalid hex char).
decode_hex(hex) ==
    IF Len(hex) % 2 # 0 THEN None
    ELSE IF \E i \in 1 .. Len(hex) : char_to_hex_nibble(hex[i]) = None THEN None
    ELSE Some([ i \in 1 .. (Len(hex) \div 2) |->
                  Unwrap(char_to_hex_nibble(hex[2 * i - 1])) * 16
                      + Unwrap(char_to_hex_nibble(hex[2 * i])) ])

\* PublicKey::encode_protobuf: the PublicKey message {Type = Ed25519, Data}.
encode_protobuf(key) == << 8, 1, 18, 1, key >>

\* The same message with its two fields in the other order: protobuf decoders
\* accept it, the encoder never produces it.
encode_protobuf_reordered(key) == << 18, 1, key, 8, 1 >>

\* PublicKey::try_decode_protobuf: Some(key) or None.
try_decode_protobuf(bytes) ==
    IF /\ Len(bytes) = 5
       /\ SubSeq(bytes, 1, 4) = << 8, 1, 18, 1 >>
       /\ bytes[5] \in Keys
    THEN Some(bytes[5])
    ELSE IF /\ Len(bytes) = 5
            /\ SubSeq(bytes, 1, 2) = << 18, 1 >>
            /\ SubSeq(bytes, 4, 5) = << 8, 1 >>
            /\ bytes[3] \in Keys
    THEN Some(bytes[3])
    ELSE None

\* PeerId::from_public_key: the identity multihash of the encoded key.
PeerId_from_public_key(key) == [ multihash |-> encode_protobuf(key) ]

PeerId_to_bytes(peer_id) == << 0, Len(peer_id.multihash) >> \o peer_id.multihash

\* PeerId::from_bytes: any well-formed multihash parses, a key's or not.
PeerId_from_bytes(bytes) ==
    IF /\ Len(bytes) >= 2
       /\ bytes[1] = 0
       /\ bytes[2] = Len(bytes) - 2
    THEN Some([ multihash |-> SubSeq(bytes, 3, Len(bytes)) ])
    ELSE None

\* PeerId::to_string: the text form of the bytes.
PeerId_to_string(peer_id) == << "1" >> \o encode_hex(PeerId_to_bytes(peer_id))

\* Keypair::sign / PublicKey::verify: a signature names its signer and what
\* was signed; the empty signature (Vec::new()) verifies under no key.
EmptySignature == [ signer |-> 0, over |-> << >> ]
Keypair_sign(key, payload) == [ signer |-> key, over |-> payload ]
PublicKey_verify(key, payload, signature) ==
    signature.signer = key /\ signature.over = payload

Whitespace == { " ", "\t", "\n" }

\* str::trim().is_empty() of a string given as its sequence of characters.
TrimIsEmpty(text) == \A i \in 1 .. Len(text) : text[i] \in Whitespace

(***************************************************************************)
(* TrustedPeers                                                            *)
(***************************************************************************)
TrustedPeers_default == << >>

TrustedPeerRecord(device_code, peer_id_text, pubkey_hex, first_seen, last_seen) ==
    [ device_code |-> device_code,
      peer_id |-> peer_id_text,
      identity_pubkey_hex |-> pubkey_hex,
      first_seen_unix_ms |-> first_seen,
      last_seen_unix_ms |-> last_seen ]

Insert(map, key, value) ==
    [ k \in (DOMAIN map) \cup {key} |-> IF k = key THEN value ELSE map[k] ]

ensure_trusted_Overwrites(by_device_code, device_code, peer_id, identity_pubkey, now_unix_ms, trust_on_first_use) ==
    LET current_peer_id == PeerId_to_string(peer_id)
        current_pubkey_hex == encode_hex(identity_pubkey)
    IN  [ ok |-> TRUE, err |-> "", changed |-> TRUE,
          trusted |-> Insert(by_device_code, device_code,
                             TrustedPeerRecord(device_code, current_peer_id,
                                               current_pubkey_hex,
                                               now_unix_ms, now_unix_ms)) ]

ensure_trusted_NeverTouches(by_device_code, device_code, peer_id, identity_pubkey, now_unix_ms, trust_on_first_use) ==
    LET current_peer_id == PeerId_to_string(peer_id)
        current_pubkey_hex == encode_hex(identity_pubkey)
    IN  IF device_code \in DOMAIN by_device_code
        THEN LET existing == by_device_code[device_code]
             IN  IF \/ existing.peer_id # current_peer_id
                    \/ existing.identity_pubkey_hex # current_pubkey_hex
                 THEN [ ok |-> FALSE, err |-> "TrustedPeerMismatch",
                        changed |-> FALSE, trusted |-> by_device_code ]
                 ELSE [ ok |-> TRUE, err |-> "", changed |-> FALSE,
                        trusted |-> by_device_code ]
        ELSE IF ~ trust_on_first_use
        THEN [ ok |-> FALSE, err |-> "UntrustedPeer",
               changed |-> FALSE, trusted |-> by_device_code ]
        ELSE [ ok |-> TRUE, err |-> "", changed |-> TRUE,
               trusted |-> Insert(by_device_code, device_code,
                                  TrustedPeerRecord(device_code, current_peer_id,
                                                    current_pubkey_hex,
                                                    now_unix_ms, now_unix_ms)) ]

\* ensure_trusted that notes the time of a refused observation in the record.
ensure_trusted_TouchesOnMismatch(by_device_code, device_code, peer_id, identity_pubkey, now_unix_ms, trust_on_first_use) ==
    LET r == ensure_trusted_NeverTouches(by_device_code, device_code, peer_id,
                                         identity_pubkey, now_unix_ms, trust_on_first_use)
    IN  IF r.err = "TrustedPeerMismatch"
        THEN [ r EXCEPT !.trusted[device_code].last_seen_unix_ms = now_unix_ms + 1 ]
        ELSE r

\* Result {ok, err, changed, trusted}: trusted is the store after the call.
\* i64::saturating_sub: the timestamps of this model are far from the i64 range.
ensure_trusted(by_device_code, device_code, peer_id, identity_pubkey, now_unix_ms, trust_on_first_use) ==
    LET current_peer_id == PeerId_to_string(peer_id)
        current_pubkey_hex == encode_hex(identity_pubkey)
    IN  IF device_code \in DOMAIN by_device_code
        THEN LET existing == by_device_code[device_code]
                 changed == now_unix_ms - existing.last_seen_unix_ms
                                >= LAST_SEEN_PERSIST_INTERVAL_MS
             IN  IF \/ existing.peer_id # current_peer_id
                    \/ existing.identity_pubkey_hex # current_pubkey_hex
                 THEN [ ok |-> FALSE, err |-> "TrustedPeerMismatch",
                        changed |-> FALSE, trusted |-> by_device_code ]
                 ELSE [ ok |-> TRUE, err |-> "", changed |-> changed,
                        trusted |-> IF changed
                                    THEN [ by_device_code EXCEPT
                                             ![device_code].last_seen_unix_ms = now_unix_ms ]
                                    ELSE by_device_code ]
        ELSE IF ~ trust_on_first_use
        THEN [ ok |-> FALSE, err |-> "UntrustedPeer",
               changed |-> FALSE, trusted |-> by_device_code ]
        ELSE [ ok |-> TRUE, err |-> "", changed |-> TRUE,
               trusted |-> Insert(by_device_code, device_code,
                                  TrustedPeerRecord(device_code, current_peer_id,
                                                    current_pubkey_hex,
                                                    now_unix_ms, now_unix_ms)) ]

(***************************************************************************)
(* SessionRequest: sign and verify                                         *)
(***************************************************************************)
DeviceIdentity(peer_id_bytes, identity_pubkey, device_code) ==
    [ peer_id |-> peer_id_bytes, identity_pubkey |-> identity_pubkey,
      device_code |-> device_code ]

\* The fields of the wire message that the checks read; the other fields
\* (role, codecs, dimensions) are carried in the signed payload only.
SessionRequest(session_id, from, target_device_code, nonce, unix_ms) ==
    [ session_id |-> session_id, from |-> from,
      target_device_code |-> target_device_code,
      nonce |-> nonce, unix_ms |-> unix_ms,
      signature |-> EmptySignature ]

canonical_session_request_payload(request) ==
    [ request EXCEPT !.signature = EmptySignature ]

sign_session_request(request, keypair) ==
    [ request EXCEPT !.signature =
        Keypair_sign(keypair, canonical_session_request_payload(request)) ]

AuthErr(err, cache, trusted) ==
    [ ok |-> FALSE, err |-> err, peer |-> None, cache |-> cache, trusted |-> trusted ]

SkewExceeded(now_unix_ms, unix_ms, allowed_skew_ms) ==
    Abs(now_unix_ms - unix_ms) > allowed_skew_ms

TransportPeerIdMismatch_Never(transport_peer_id, derived_peer_id) == FALSE

\* if let Some(bound_peer_id) = transport_peer_id && *bound_peer_id != derived_peer_id
TransportPeerIdMismatch(transport_peer_id, derived_peer_id) ==
    IsSome(transport_peer_id) /\ Unwrap(transport_peer_id) # derived_peer_id

\* The same checks with the replay cache consulted before the timestamp.
verify_session_request_ReplayBeforeSkew(request, transport_peer_id, expected_target_device_code, now_unix_ms, allowed_skew_ms, replay_cache, trusted, trust_on_first_use) ==
    IF ~ IsSome(request.from) THEN
        AuthErr("MissingSenderIdentity", replay_cache, trusted)
    ELSE LET from == Unwrap(request.from) IN
    IF TrimIsEmpty(from.device_code) THEN
        AuthErr("MissingDeviceCode", replay_cache, trusted)
    ELSE IF /\ IsSome(expected_target_device_code)
            /\ request.target_device_code # Unwrap(expected_target_device_code) THEN
        AuthErr("InvalidTargetDeviceCode", replay_cache, trusted)
    ELSE IF Len(request.nonce) = 0 THEN
        AuthErr("MissingNonce", replay_cache, trusted)
    ELSE IF Len(request.nonce) < MIN_NONCE_BYTES THEN
        AuthErr("NonceTooShort", replay_cache, trusted)
    ELSE LET stored == check_and_store(replay_cache, request.nonce, now_unix_ms) IN
    IF ~ stored.ok THEN
        AuthErr(stored.err, stored.cache, trusted)
    ELSE IF SkewExceeded(now_unix_ms, request.unix_ms, allowed_skew_ms) THEN
        AuthErr("TimestampSkew", stored.cache, trusted)
    ELSE LET decoded == try_decode_protobuf(from.identity_pubkey) IN
    IF ~ IsSome(decoded) THEN
        AuthErr("InvalidSenderPublicKey", stored.cache, trusted)
    ELSE LET sender_public_key == Unwrap(decoded) IN
    IF ~ PublicKey_verify(sender_public_key,
                          canonical_session_request_payload(request),
                          request.signature) THEN
        AuthErr("InvalidSignature", stored.cache, trusted)
    ELSE LET claimed == PeerId_from_bytes(from.peer_id)
             derived_peer_id == PeerId_from_public_key(sender_public_key) IN
    IF ~ IsSome(claimed) THEN
        AuthErr("InvalidSenderPeerId", stored.cache, trusted)
    ELSE IF Unwrap(claimed) # derived_peer_id THEN
        AuthErr("PeerIdMismatch", stored.cache, trusted)
    ELSE IF TransportPeerIdMismatch(transport_peer_id, derived_peer_id) THEN
        AuthErr("TransportPeerIdMismatch", stored.cache, trusted)
    ELSE LET trust == ensure_trusted(trusted, from.device_code, derived_peer_id,
                                     from.identity_pubkey, now_unix_ms,
                                     trust_on_first_use) IN
    IF ~ trust.ok THEN
        AuthErr(trust.err, stored.cache, trust.trusted)
    ELSE
        [ ok |-> TRUE, err |-> "",
          peer |-> Some([ peer_id |-> derived_peer_id,
                          device_code |-> from.device_code,
                          trust_store_changed |-> trust.changed ]),
          cache |-> stored.cache, trusted |-> trust.trusted ]

\* Result {ok, err, peer, cache, trusted}: cache and trusted are the replay
\* cache and the trust store after the call, on the error paths too.
verify_session_request(request, transport_peer_id, expected_target_device_code, now_unix_ms, allowed_skew_ms, replay_cache, trusted, trust_on_first_use) ==
    IF ~ IsSome(request.from) THEN
        AuthErr("MissingSenderIdentity", replay_cache, trusted)
    ELSE LET from == Unwrap(request.from) IN
    IF TrimIsEmpty(from.device_code) THEN
        AuthErr("MissingDeviceCode", replay_cache, trusted)
    ELSE IF /\ IsSome(expected_target_device_code)
            /\ request.target_device_code # Unwrap(expected_target_device_code) THEN
        AuthErr("InvalidTargetDeviceCode", replay_cache, trusted)
    ELSE IF Len(request.nonce) = 0 THEN
        AuthErr("MissingNonce", replay_cache, trusted)
    ELSE IF Len(request.nonce) < MIN_NONCE_BYTES THEN
        AuthErr("NonceTooShort", replay_cache, trusted)
    ELSE IF SkewExceeded(now_unix_ms, request.unix_ms, allowed_skew_ms) THEN
        AuthErr("TimestampSkew", replay_cache, trusted)
    ELSE LET stored == check_and_store(replay_cache, request.nonce, now_unix_ms) IN
    IF ~ stored.ok THEN
        AuthErr(stored.err, stored.cache, trusted)
    ELSE LET decoded == try_decode_protobuf(from.identity_pubkey) IN
    IF ~ IsSome(decoded) THEN
        AuthErr("InvalidSenderPublicKey", stored.cache, trusted)
    ELSE LET sender_public_key == Unwrap(decoded) IN
    IF ~ PublicKey_verify(sender_public_key,
                          canonical_session_request_payload(request),
                          request.signature) THEN
        AuthErr("InvalidSignature", stored.cache, trusted)
    ELSE LET claimed == PeerId_from_bytes(from.peer_id)
             derived_peer_id == PeerId_from_public_key(sender_public_key) IN
    IF ~ IsSome(claimed) THEN
        AuthErr("InvalidSenderPeerId", stored.cache, trusted)
    ELSE IF Unwrap(claimed) # derived_peer_id THEN
        AuthErr("PeerIdMismatch", stored.cache, trusted)
    ELSE IF TransportPeerIdMismatch(transport_peer_id, derived_peer_id) THEN
        AuthErr("TransportPeerIdMismatch", stored.cache, trusted)
    ELSE LET trust == ensure_trusted(trusted, from.device_code, derived_peer_id,
                                     from.identity_pubkey, now_unix_ms,
                                     trust_on_first_use) IN
    IF ~ trust.ok THEN
        AuthErr(trust.err, stored.cache, trust.trusted)
    ELSE
        [ ok |-> TRUE, err |-> "",
          peer |-> Some([ peer_id |-> derived_peer_id,
                          device_code |-> from.device_code,
                          trust_store_changed |-> trust.changed ]),
          cache |-> stored.cache, trusted |-> trust.trusted ]


(***************************************************************************)
(* ConnectionStateMachine (lib.rs)                                         *)
(***************************************************************************)
St(name) == [ name |-> name, reason |-> "" ]
Failed(reason) == [ name |-> "Failed", reason |-> reason ]

FailureReasons ==
    { "DiscoveryTimeout", "RelayTimeout", "AuthFailed", "VersionMismatch",
      "RetryBudgetExhausted", "UserAbort" }

Triggers ==
    { "StartConnect", "CandidatesFound", "DiscoveryTimeout", "DirectConnected",
      "DirectNoSuccess", "PunchConnected", "PunchTimeout", "RelayConnected",
      "RelayTimeout", "HandshakeOk", "AuthFailed", "VersionMismatch", "PathLost",
      "RetryBudgetAvailable", "RetryBudgetExhausted", "UserRetry", "UserHangup" }

TimingProfile_default ==
    [ discovery_timeout_ms |-> 2500,
      direct_dial_budget_ms |-> 1500,
      punch_budget_ms |-> 2200,
      relay_dial_timeout_ms |-> 2500,
      handshake_timeout_ms |-> 1200,
      ping_interval_ms |-> 1000,
      path_lost_threshold |-> 3,
      reconnect_budget_ms |-> 15000,
      reconnect_backoff_start_ms |-> 200,
      reconnect_backoff_max_ms |-> 2000 ]

ConnectionStateMachine_new(timing) ==
    [ state |-> St("Idle"), timing |-> timing,
      reconnect_elapsed_ms |-> 0, reconnect_attempts |-> 0 ]

ConnectionStateMachine_default == ConnectionStateMachine_new(TimingProfile_default)

\* register_backoff_wait that counts every wait twice.
register_backoff_wait_CountsTwice(m, backoff_ms) ==
    [ m EXCEPT !.reconnect_attempts = m.reconnect_attempts + 2,
               !.reconnect_elapsed_ms = m.reconnect_elapsed_ms + 2 * backoff_ms ]

\* u32 / u64 saturating_add: the counters of this model stay far below 2^32.
register_backoff_wait(m, backoff_ms) ==
    [ m EXCEPT !.reconnect_attempts = m.reconnect_attempts + 1,
               !.reconnect_elapsed_ms = m.reconnect_elapsed_ms + backoff_ms ]

has_reconnect_budget_Inclusive(m) ==
    m.reconnect_elapsed_ms <= m.timing.reconnect_budget_ms

has_reconnect_budget(m) ==
    m.reconnect_elapsed_ms < m.timing.reconnect_budget_ms

next_backoff_ms_NoShift(m) ==
    Min(m.timing.reconnect_backoff_start_ms, m.timing.reconnect_backoff_max_ms)

next_backoff_ms(m) ==
    LET shift == Min(m.reconnect_attempts, 31)
        base  == m.timing.reconnect_backoff_start_ms * (2 ^ shift)
    IN  Min(base, m.timing.reconnect_backoff_max_ms)

Timer(kind, ms) == Some(<<kind, ms>>)

TransitionOk_StaleFrom(m, trigger, to, arm_timer) ==
    [ machine |-> [ m EXCEPT !.state = to ],
      result  |-> [ ok |-> TRUE, from |-> to, to |-> to,
                    arm_timer |-> arm_timer, trigger |-> trigger ] ]

TransitionOk_ResetsCounters(m, trigger, to, arm_timer) ==
    [ machine |-> [ m EXCEPT !.state = to, !.reconnect_attempts = 0,
                             !.reconnect_elapsed_ms = 0 ],
      result  |-> [ ok |-> TRUE, from |-> m.state, to |-> to,
                    arm_timer |-> arm_timer, trigger |-> trigger ] ]

TransitionOk(m, trigger, to, arm_timer) ==
    [ machine |-> [ m EXCEPT !.state = to ],
      result  |-> [ ok |-> TRUE, from |-> m.state, to |-> to,
                    arm_timer |-> arm_timer, trigger |-> trigger ] ]

InvalidTransition_ResetsCounters(m, trigger) ==
    [ machine |-> [ m EXCEPT !.reconnect_attempts = 0, !.reconnect_elapsed_ms = 0 ],
      result  |-> [ ok |-> FALSE, from |-> m.state, to |-> m.state,
                    arm_timer |-> None, trigger |-> trigger ] ]

InvalidTransition(m, trigger) ==
    [ machine |-> m,
      result  |-> [ ok |-> FALSE, from |-> m.state, to |-> m.state,
                    arm_timer |-> None, trigger |-> trigger ] ]

\* Hangup honoured only once a path exists.
HangupStates_ConnectedOnly ==
    { "Active", "Reconnecting", "SecureHandshake" }

HangupStates ==
    { "Active", "Reconnecting", "SecureHandshake", "DialingDirect",
      "HolePunching", "RelayDialing", "Discovering" }

\* The match of apply(), arm by arm.  A guard written after an or-pattern
\* (`A | B if g`) guards both alternatives.
apply(m, trigger) ==
    LET s == m.state.name
        t == m.timing
    IN  IF s = "Idle" /\ trigger = "StartConnect" THEN
            TransitionOk(m, trigger, St("Discovering"), Timer("Discovery", t.discovery_timeout_ms))
        ELSE IF s = "Discovering" /\ trigger = "CandidatesFound" THEN
            TransitionOk(m, trigger, St("DialingDirect"), Timer("DirectDial", t.direct_dial_budget_ms))
        ELSE IF s = "Discovering" /\ trigger = "DiscoveryTimeout" THEN
            TransitionOk(m, trigger, Failed("DiscoveryTimeout"), None)
        ELSE IF s = "DialingDirect" /\ trigger = "DirectConnected" THEN
            TransitionOk(m, trigger, St("SecureHandshake"), Timer("Handshake", t.handshake_timeout_ms))
        ELSE IF s = "DialingDirect" /\ trigger = "DirectNoSuccess" THEN
            TransitionOk(m, trigger, St("HolePunching"), Timer("HolePunch", t.punch_budget_ms))
        ELSE IF s = "HolePunching" /\ trigger = "PunchConnected" THEN
            TransitionOk(m, trigger, St("SecureHandshake"), Timer("Handshake", t.handshake_timeout_ms))
        ELSE IF s = "HolePunching" /\ trigger = "PunchTimeout" THEN
            TransitionOk(m, trigger, St("RelayDialing"), Timer("RelayDial", t.relay_dial_timeout_ms))
        ELSE IF s = "RelayDialing" /\ trigger = "RelayConnected" THEN
            TransitionOk(m, trigger, St("SecureHandshake"), Timer("Handshake", t.handshake_timeout_ms))
        ELSE IF s = "RelayDialing" /\ trigger = "RelayTimeout" THEN
            TransitionOk(m, trigger, Failed("RelayTimeout"), None)
        ELSE IF s = "SecureHandshake" /\ trigger = "HandshakeOk" THEN
            TransitionOk([ m EXCEPT !.reconnect_attempts = 0, !.reconnect_elapsed_ms = 0 ],
                         trigger, St("Active"), None)
        ELSE IF s = "SecureHandshake" /\ trigger = "AuthFailed" THEN
            TransitionOk(m, trigger, Failed("AuthFailed"), None)
        ELSE IF s = "SecureHandshake" /\ trigger = "VersionMismatch" THEN
            TransitionOk(m, trigger, Failed("VersionMismatch"), None)
        ELSE IF s = "Active" /\ trigger = "PathLost" THEN
            LET wait == next_backoff_ms(m)
            IN  TransitionOk(register_backoff_wait(m, wait), trigger,
                             St("Reconnecting"), Timer("ReconnectBackoff", wait))
        ELSE IF s = "Reconnecting" /\ trigger = "RetryBudgetAvailable"
                /\ has_reconnect_budget(m) THEN
            TransitionOk(m, trigger, St("DialingDirect"), Timer("DirectDial", t.direct_dial_budget_ms))
        ELSE IF s = "Reconnecting"
                /\ trigger \in { "RetryBudgetExhausted", "RetryBudgetAvailable" }
                /\ ~ has_reconnect_budget(m) THEN
            TransitionOk(m, trigger, Failed("RetryBudgetExhausted"), None)
        ELSE IF s = "Failed" /\ trigger = "UserRetry" THEN
            TransitionOk(m, trigger, St("Idle"), None)
        ELSE IF s \in HangupStates /\ trigger = "UserHangup" THEN
            TransitionOk(m, trigger, St("Closed"), None)
        ELSE
            InvalidTransition(m, trigger)


(***************************************************************************)
(* SMSpec: one ConnectionStateMachine driven through its public methods.   *)
(* io records the last call: the machine before it and what it returned.   *)
(***************************************************************************)
\* Timing profiles handed to ConnectionStateMachine::new: the default, the
\* one of tests::reconnect_budget_resets_after_successful_handshake, one whose
\* budget is used up by the first backoff, and one whose start exceeds its max.
TimingProfiles ==
    { TimingProfile_default,
      [ TimingProfile_default EXCEPT !.reconnect_budget_ms = 500,
                                     !.reconnect_backoff_start_ms = 200,
                                     !.reconnect_backoff_max_ms = 300 ],
      [ TimingProfile_default EXCEPT !.reconnect_budget_ms = 200 ],
      [ TimingProfile_default EXCEPT !.reconnect_budget_ms = 1000,
                                     !.reconnect_backoff_start_ms = 400,
                                     !.reconnect_backoff_max_ms = 300,
                                     !.direct_dial_budget_ms = 1700 ] }

BackoffArgs == { 0, 200, 15000 }

IdleIO == [ op |-> "none" ]
NoHist == << >>

SMInit ==
    /\ machine \in { ConnectionStateMachine_new(t) : t \in TimingProfiles }
    /\ io = IdleIO
    /\ app = NoApp
    /\ net = NoNet
    /\ hist = NoHist
    /\ nonce_cache = NonceReplayCache_default
    /\ trusted_peers = << >>

Apply(trigger) ==
    LET r == apply(machine, trigger)
    IN  /\ machine' = r.machine
        /\ io' = [ op |-> "apply", trigger |-> trigger, before |-> machine,
                   result |-> r.result ]
        /\ UNCHANGED <<nonce_cache, trusted_peers, hist, app, net>>

RegisterBackoffWait(backoff_ms) ==
    /\ machine.reconnect_attempts < MaxWaits
    /\ machine' = register_backoff_wait(machine, backoff_ms)
    /\ io' = [ op |-> "register_backoff_wait", backoff_ms |-> backoff_ms,
               before |-> machine ]
    /\ UNCHANGED <<nonce_cache, trusted_peers, hist, app, net>>

SMNext ==
    \/ \E trigger \in Triggers : Apply(trigger)
    \/ \E backoff_ms \in BackoffArgs : RegisterBackoffWait(backoff_ms)

SMSpec == SMInit /\ [][SMNext]_vars

Applied == io.op = "apply"
AppliedIn(s, trigger) ==
    Applied /\ io.before.state.name = s /\ io.trigger = trigger


\* What an accepted transition must look like: Transition {from, to, arm_timer}
\* and the machine left in `to`.
Moved(to, arm_timer) ==
    /\ io.result.ok
    /\ io.result.from = io.before.state
    /\ io.result.to = to
    /\ io.result.arm_timer = arm_timer
    /\ machine.state = to

Row(s, trigger, to, arm_timer) == AppliedIn(s, trigger) => Moved(to, arm_timer)

\* C6: apply follows the dial and handshake rows of the transition table, and
\* arms the table's timer with the duration of the machine's timing profile;
\* Transition.from is the prior state and Transition.to the new one.
C6_DialAndHandshakeRows ==
    LET t == io.before.timing
    IN  /\ Row("Idle", "StartConnect", St("Discovering"), Timer("Discovery", t.discovery_timeout_ms))
        /\ Row("Discovering", "CandidatesFound", St("DialingDirect"), Timer("DirectDial", t.direct_dial_budget_ms))
        /\ Row("Discovering", "DiscoveryTimeout", Failed("DiscoveryTimeout"), None)
        /\ Row("DialingDirect", "DirectConnected", St("SecureHandshake"), Timer("Handshake", t.handshake_timeout_ms))
        /\ Row("DialingDirect", "DirectNoSuccess", St("HolePunching"), Timer("HolePunch", t.punch_budget_ms))
        /\ Row("HolePunching", "PunchConnected", St("SecureHandshake"), Timer("Handshake", t.handshake_timeout_ms))
        /\ Row("HolePunching", "PunchTimeout", St("RelayDialing"), Timer("RelayDial", t.relay_dial_timeout_ms))
        /\ Row("RelayDialing", "RelayConnected", St("SecureHandshake"), Timer("Handshake", t.handshake_timeout_ms))
        /\ Row("RelayDialing", "RelayTimeout", Failed("RelayTimeout"), None)
        /\ Row("SecureHandshake", "HandshakeOk", St("Active"), None)
        /\ Row("SecureHandshake", "AuthFailed", Failed("AuthFailed"), None)
        /\ Row("SecureHandshake", "VersionMismatch", Failed("VersionMismatch"), None)

C6_Witness ==
    /\ AppliedIn("HolePunching", "PunchTimeout")
    /\ machine.state = St("RelayDialing")
    /\ io.result.arm_timer = Timer("RelayDial", 2500)

\* The cells of the transition table that are not blank, row by row.
TableCells(s) ==
    CASE s = "Idle"            -> { "StartConnect" }
      [] s = "Discovering"     -> { "CandidatesFound", "DiscoveryTimeout", "UserHangup" }
      [] s = "DialingDirect"   -> { "DirectConnected", "DirectNoSuccess", "UserHangup" }
      [] s = "HolePunching"    -> { "PunchConnected", "PunchTimeout", "UserHangup" }
      [] s = "RelayDialing"    -> { "RelayConnected", "RelayTimeout", "UserHangup" }
      [] s = "SecureHandshake" -> { "HandshakeOk", "AuthFailed", "VersionMismatch", "UserHangup" }
      [] s = "Active"          -> { "PathLost", "UserHangup" }
      [] s = "Reconnecting"    -> { "RetryBudgetAvailable", "RetryBudgetExhausted", "UserHangup" }
      [] s = "Failed"          -> { "UserRetry" }
      [] OTHER                 -> { }

BlankCell == Applied /\ io.trigger \notin TableCells(io.before.state.name)

\* C7: for every (state, trigger) whose cell in the transition table is blank,
\* apply returns InvalidTransition{from: current state, trigger} and leaves
\* state, reconnect_attempts and reconnect_elapsed_ms as they were.
C7_BlankCellIsInvalidTransition ==
    BlankCell =>
        /\ ~ io.result.ok
        /\ io.result.from = io.before.state
        /\ io.result.trigger = io.trigger
        /\ machine.state = io.before.state
        /\ machine.reconnect_attempts = io.before.reconnect_attempts
        /\ machine.reconnect_elapsed_ms = io.before.reconnect_elapsed_ms

C7_Witness ==
    /\ BlankCell
    /\ io.before.state = St("Reconnecting")
    /\ io.trigger = "HandshakeOk"
    /\ io.before.reconnect_attempts > 0
    /\ ~ io.result.ok

\* C8 (as claimed): RetryBudgetExhausted in Reconnecting always moves the
\* machine to Failed(RetryBudgetExhausted) with no timer, whether or not
\* reconnect budget remains.
C8_ExhaustedAlwaysFails ==
    Row("Reconnecting", "RetryBudgetExhausted", Failed("RetryBudgetExhausted"), None)

\* C9: RetryBudgetAvailable in Reconnecting goes to DialingDirect and arms
\* DirectDial(direct_dial_budget_ms) exactly when reconnect_elapsed_ms <
\* reconnect_budget_ms, otherwise to Failed(RetryBudgetExhausted) with no
\* timer; it is never an InvalidTransition.
C9_RetryBudgetAvailable ==
    AppliedIn("Reconnecting", "RetryBudgetAvailable") =>
        IF io.before.reconnect_elapsed_ms < io.before.timing.reconnect_budget_ms
        THEN Moved(St("DialingDirect"),
                   Timer("DirectDial", io.before.timing.direct_dial_budget_ms))
        ELSE Moved(Failed("RetryBudgetExhausted"), None)

C9_Witness ==
    /\ AppliedIn("Reconnecting", "RetryBudgetAvailable")
    /\ io.before.reconnect_elapsed_ms = io.before.timing.reconnect_budget_ms
    /\ machine.state = Failed("RetryBudgetExhausted")

Nonce(byte, len) == [ i \in 1 .. len |-> byte ]
NonceA == Nonce(170, MIN_NONCE_BYTES)
NonceB == Nonce(187, MIN_NONCE_BYTES)
CacheNonces == { NonceA, NonceB }

\* Arguments of NonceReplayCache::new: the default and one that new() raises to 1.
RetentionArgs == { DEFAULT_REPLAY_RETENTION_MS, 0 }

NeverPresented == [ first |-> None, late |-> FALSE ]

NoteCall(h, retention_ms, nonce, now_unix_ms) ==
    [ n \in DOMAIN h |->
        IF IsSome(h[n].first)
        THEN [ h[n] EXCEPT !.late = h[n].late
                               \/ now_unix_ms - Unwrap(h[n].first) > retention_ms ]
        ELSE IF n = nonce
        THEN [ first |-> Some(now_unix_ms), late |-> FALSE ]
        ELSE h[n] ]

CacheInit ==
    /\ nonce_cache \in { NonceReplayCache_new(r) : r \in RetentionArgs }
    /\ hist = [ n \in CacheNonces |-> NeverPresented ]
    /\ io = IdleIO
    /\ app = NoApp
    /\ net = NoNet
    /\ trusted_peers = TrustedPeers_default
    /\ machine = ConnectionStateMachine_default

CheckAndStore(nonce, now_unix_ms) ==
    LET r == check_and_store(nonce_cache, nonce, now_unix_ms)
    IN  /\ nonce_cache' = r.cache
        /\ io' = [ op |-> "check_and_store", nonce |-> nonce, now |-> now_unix_ms,
                   ok |-> r.ok, err |-> r.err, before |-> hist[nonce] ]
        /\ hist' = NoteCall(hist, nonce_cache.retention_ms, nonce, now_unix_ms)
        /\ UNCHANGED <<trusted_peers, machine, app, net>>

CacheNext == \E nonce \in CacheNonces, now_unix_ms \in Times : CheckAndStore(nonce, now_unix_ms)

CacheSpec == CacheInit /\ [][CacheNext]_vars

Checked == io.op = "check_and_store"
\* The call just made presents its nonce again, t' - t <= retention after the first time.
AgainWithinRetention ==
    /\ Checked
    /\ IsSome(io.before.first)
    /\ io.now - Unwrap(io.before.first) <= nonce_cache.retention_ms

\* C4 (as claimed): check_and_store(n, t) succeeds the first time n is
\* presented, and every later check_and_store(n, t') with t' - t <= retention
\* fails with ReplayDetected, whatever calls with other nonces and other
\* timestamps happen in between.
C4_ReplayWhateverHappensBetween ==
    /\ (Checked /\ ~ IsSome(io.before.first)) => io.ok
    /\ AgainWithinRetention => (~ io.ok /\ io.err = "ReplayDetected")

\* C4 (amended): check_and_store(n, t) succeeds the first time n is presented,
\* and a later check_and_store(n, t') with t' - t <= retention fails with
\* ReplayDetected provided no call since the first one carried a timestamp
\* later than t + retention; calls with other nonces do not matter.
C4_ReplayUnlessEvictedBetween ==
    /\ (Checked /\ ~ IsSome(io.before.first)) => io.ok
    /\ (AgainWithinRetention /\ ~ io.before.late) => (~ io.ok /\ io.err = "ReplayDetected")

C4_Witness ==
    /\ AgainWithinRetention
    /\ ~ io.before.late
    /\ io.now - Unwrap(io.before.first) = nonce_cache.retention_ms
    /\ nonce_cache.retention_ms = DEFAULT_REPLAY_RETENTION_MS
    /\ Cardinality(DOMAIN nonce_cache.seen) = 2
    /\ ~ io.ok


(***************************************************************************)
(* Calls of verify_session_request on one replay cache and one trust       *)
(* store, as handle_control_request makes them: a request arrives          *)
(* (Receive), verify_session_request runs on it (Verify), the caller takes *)
(* the result and answers (Reply).  After Verify, io holds the arguments,  *)
(* the result, and the cache and trust store as they were before the call. *)
(***************************************************************************)
DeviceA == << "A" >>
LocalCode == << "L" >>

KeyPeerId(key) == PeerId_from_public_key(key)

\* A request as the sender builds it: signed with `signer`, or left unsigned (0).
MakeRequest(from, target_device_code, nonce, unix_ms, signer) ==
    LET request == SessionRequest("session-test", from, target_device_code, nonce, unix_ms)
    IN  IF signer = 0 THEN request ELSE sign_session_request(request, signer)

CallArgs(request, transport_peer_id, expected_target, now_unix_ms, skew, tofu) ==
    [ request |-> request, transport_peer_id |-> transport_peer_id,
      expected_target |-> expected_target, now |-> now_unix_ms,
      skew |-> skew, tofu |-> tofu ]

Receive(args) ==
    /\ io.op = "none"
    /\ io' = [ op |-> "verify_session_request", phase |-> "call", args |-> args ]
    /\ UNCHANGED <<nonce_cache, trusted_peers, machine, hist, app, net>>

Calling == io.op = "verify_session_request" /\ io.phase = "call"
Returned == io.op = "verify_session_request" /\ io.phase = "ret"

VerifyResult ==
    verify_session_request(io.args.request, io.args.transport_peer_id,
                           io.args.expected_target, io.args.now, io.args.skew,
                           nonce_cache, trusted_peers, io.args.tofu)

Returning(r) ==
    [ op |-> "verify_session_request", phase |-> "ret", args |-> io.args,
      ok |-> r.ok, err |-> r.err, peer |-> r.peer,
      before |-> [ cache |-> nonce_cache, trusted |-> trusted_peers, hist |-> hist ] ]

Verify ==
    /\ Calling
    /\ nonce_cache' = VerifyResult.cache
    /\ trusted_peers' = VerifyResult.trusted
    /\ io' = Returning(VerifyResult)
    /\ UNCHANGED <<machine, hist, app, net>>

Reply ==
    /\ Returned
    /\ io' = IdleIO
    /\ UNCHANGED <<nonce_cache, trusted_peers, machine, hist, app, net>>

Accepted == Returned /\ io.ok

(***************************************************************************)
(* IdentitySpec: requests whose claimed peer id, carried public key,       *)
(* signer and transport peer id vary independently.                        *)
(***************************************************************************)
PeerIdBytesSet ==
    { PeerId_to_bytes(KeyPeerId(k)) : k \in Keys } \cup { << 0, 1, 7 >>, << 9 >> }
PubkeyBytesSet ==
    { encode_protobuf(k) : k \in Keys }
        \cup { encode_protobuf_reordered(k) : k \in Keys } \cup { << 255 >> }
Transports == { None } \cup { Some(KeyPeerId(k)) : k \in Keys }
CoarseTimes == { 0, DEFAULT_REPLAY_RETENTION_MS + DEFAULT_ALLOWED_SKEW_MS }

IdentityFroms ==
    { None } \cup
    { Some(DeviceIdentity(pb, kb, DeviceA)) : pb \in PeerIdBytesSet, kb \in PubkeyBytesSet }

IdentityArgs ==
    { CallArgs(MakeRequest(from, LocalCode, NonceA, now, signer), tp,
               Some(LocalCode), now, DEFAULT_ALLOWED_SKEW_MS, tofu) :
        from \in IdentityFroms, now \in CoarseTimes,
        signer \in 0 .. NumKeys, tp \in Transports, tofu \in BOOLEAN }

AuthInit ==
    /\ nonce_cache = NonceReplayCache_default
    /\ trusted_peers = TrustedPeers_default
    /\ io = IdleIO
    /\ app = NoApp
    /\ net = NoNet
    /\ hist = NoHist
    /\ machine = ConnectionStateMachine_default

IdentityNext ==
    \/ \E args \in IdentityArgs : Receive(args)
    \/ Verify
    \/ Reply

IdentitySpec == AuthInit /\ [][IdentityNext]_vars


\* C1: whenever verify_session_request accepts a request, the returned peer
\* id is the peer id derived from the public key carried in
\* from.identity_pubkey and the peer id claimed in from.peer_id, and, when a
\* transport peer id was supplied, it is the transport peer id as well: no
\* request is accepted when any of these differ.
C1_AcceptedPeerIdsAgree ==
    Accepted =>
        LET from == Unwrap(io.args.request.from)
            returned == Unwrap(io.peer).peer_id
            carried == try_decode_protobuf(from.identity_pubkey)
        IN  /\ IsSome(carried)
            /\ returned = PeerId_from_public_key(Unwrap(carried))
            /\ PeerId_from_bytes(from.peer_id) = Some(returned)
            /\ IsSome(io.args.transport_peer_id)
                   => Unwrap(io.args.transport_peer_id) = returned

C1_Witness ==
    /\ Accepted
    /\ IsSome(io.args.transport_peer_id)
    /\ Unwrap(io.args.request.from).identity_pubkey = encode_protobuf_reordered(NumKeys)


(***************************************************************************)
(* TrustSpec: correctly signed requests of every key, in either encoding   *)
(* of its public key, all under the one device code, at times one          *)
(* persist interval apart and a millisecond off it.                        *)
(***************************************************************************)
KeyEncodings(key) == { encode_protobuf(key), encode_protobuf_reordered(key) }

TrustTimes ==
    { k * LAST_SEEN_PERSIST_INTERVAL_MS + d : k \in 0 .. (MaxTick \div 2), d \in { 0, 1 } }

SignedFrom(key, pubkey, device_code) ==
    Some(DeviceIdentity(PeerId_to_bytes(KeyPeerId(key)), pubkey, device_code))

TrustRequests(now) ==
    UNION { { MakeRequest(SignedFrom(k, pubkey, DeviceA), LocalCode, nonce, now, k) :
                pubkey \in KeyEncodings(k), nonce \in CacheNonces } : k \in Keys }

TrustArgs ==
    UNION { { CallArgs(request, None, Some(LocalCode), now,
                       DEFAULT_ALLOWED_SKEW_MS, tofu) :
                request \in TrustRequests(now), tofu \in BOOLEAN } : now \in TrustTimes }

TrustNext ==
    \/ \E args \in TrustArgs : Receive(args)
    \/ Verify
    \/ Reply

TrustSpec == AuthInit /\ [][TrustNext]_vars


\* What a call observes of its sender, as ensure_trusted compares it.
ObservedDeviceCode == Unwrap(io.args.request.from).device_code
ObservedPubkeyHex == encode_hex(Unwrap(io.args.request.from).identity_pubkey)
ObservedPeerId ==
    PeerId_to_string(Unwrap(PeerId_from_bytes(Unwrap(io.args.request.from).peer_id)))
ReachedTrustStore ==
    Returned /\ (io.ok \/ io.err \in { "TrustedPeerMismatch", "UntrustedPeer" })
ObservedMismatch ==
    /\ ReachedTrustStore
    /\ ObservedDeviceCode \in DOMAIN io.before.trusted
    /\ \/ io.before.trusted[ObservedDeviceCode].peer_id # ObservedPeerId
       \/ io.before.trusted[ObservedDeviceCode].identity_pubkey_hex # ObservedPubkeyHex

\* C2: a call of verify_session_request leaves every existing trust-store
\* record with its device_code, peer_id, identity_pubkey_hex and
\* first_seen_unix_ms; an observation under a stored device code with a
\* different peer id or public key fails with TrustedPeerMismatch and changes
\* nothing; last_seen_unix_ms never decreases, and it changes only to the
\* now of a call where now - last_seen >= LAST_SEEN_PERSIST_INTERVAL_MS.
C2_RecordsArePinned ==
    Returned =>
        /\ \A dc \in DOMAIN io.before.trusted :
            /\ dc \in DOMAIN trusted_peers
            /\ LET old == io.before.trusted[dc]
                   new == trusted_peers[dc]
               IN  /\ new.device_code = old.device_code
                   /\ new.peer_id = old.peer_id
                   /\ new.identity_pubkey_hex = old.identity_pubkey_hex
                   /\ new.first_seen_unix_ms = old.first_seen_unix_ms
                   /\ new.last_seen_unix_ms >= old.last_seen_unix_ms
                   /\ new.last_seen_unix_ms # old.last_seen_unix_ms =>
                        /\ new.last_seen_unix_ms = io.args.now
                        /\ io.args.now - old.last_seen_unix_ms
                               >= LAST_SEEN_PERSIST_INTERVAL_MS
                        /\ io.ok /\ dc = ObservedDeviceCode
        /\ ObservedMismatch =>
            /\ ~ io.ok
            /\ io.err = "TrustedPeerMismatch"
            /\ trusted_peers = io.before.trusted

\* A sender with the stored peer id but another encoding of the public key is
\* turned away, from a record whose last_seen has already advanced.
C2_Witness ==
    /\ ObservedMismatch
    /\ io.before.trusted[ObservedDeviceCode].peer_id = ObservedPeerId
    /\ io.before.trusted[ObservedDeviceCode].last_seen_unix_ms
           > io.before.trusted[ObservedDeviceCode].first_seen_unix_ms


(***************************************************************************)
(* ReplaySpec: one sender presents signed and unsigned requests, fresh and *)
(* repeated, to a cache of either retention, while the wall clock that     *)
(* dates the calls (unix_ms() of the node) never runs backwards.           *)
(* hist.clock is the time of the latest call; hist.tracked is one call,    *)
(* any one, remembered with its outcome.                                   *)
(***************************************************************************)
ReplayRetentions == { DEFAULT_REPLAY_RETENTION_MS, DEFAULT_ALLOWED_SKEW_MS + 1 }

ReplayRequests ==
    { MakeRequest(SignedFrom(1, encode_protobuf(1), DeviceA), LocalCode,
                  nonce, unix_ms, signer) :
        nonce \in { NonceA }, unix_ms \in Times, signer \in { 0, 1 } }

ReplayArgs ==
    { CallArgs(request, Some(KeyPeerId(1)), Some(LocalCode), now,
               DEFAULT_ALLOWED_SKEW_MS, TRUE) :
        request \in ReplayRequests, now \in Times }

ReplayInit ==
    /\ nonce_cache \in { NonceReplayCache_new(r) : r \in ReplayRetentions }
    /\ trusted_peers = TrustedPeers_default
    /\ io = IdleIO
    /\ app = NoApp
    /\ net = NoNet
    /\ hist = [ clock |-> 0, tracked |-> None ]
    /\ machine = ConnectionStateMachine_default

ReplayReceive(args) ==
    /\ io.op = "none"
    /\ args.now >= hist.clock
    /\ io' = [ op |-> "verify_session_request", phase |-> "call", args |-> args ]
    /\ hist' = [ hist EXCEPT !.clock = args.now ]
    /\ UNCHANGED <<nonce_cache, trusted_peers, machine, app, net>>

ReplayVerify(track) ==
    /\ Calling
    /\ track => ~ IsSome(hist.tracked)
    /\ nonce_cache' = VerifyResult.cache
    /\ trusted_peers' = VerifyResult.trusted
    /\ io' = Returning(VerifyResult)
    /\ hist' = IF track
               THEN [ hist EXCEPT !.tracked = Some([ request |-> io.args.request,
                                                     now |-> io.args.now,
                                                     ok |-> VerifyResult.ok ]) ]
               ELSE hist
    /\ UNCHANGED <<machine, app, net>>

ReplayNext ==
    \/ \E args \in ReplayArgs : ReplayReceive(args)
    \/ \E track \in BOOLEAN : ReplayVerify(track)
    \/ Reply

ReplaySpec == ReplayInit /\ [][ReplayNext]_vars


\* The call remembered before the call that has just returned.
HasEarlier == Returned /\ IsSome(io.before.hist.tracked)
Earlier == Unwrap(io.before.hist.tracked)

SameNonceWithinRetention ==
    /\ HasEarlier
    /\ Earlier.request.nonce = io.args.request.nonce
    /\ io.args.now - Earlier.now <= nonce_cache.retention_ms

\* C3 as stated: of any two requests with the same nonce presented to
\* verify_session_request within the retention window, exactly one is
\* accepted.
C3_ExactlyOneAccepted ==
    SameNonceWithinRetention => (Earlier.ok # io.ok)

\* C3: of any two requests with the same nonce presented to
\* verify_session_request within the retention window, on a clock that never
\* runs backwards, at most one is accepted: both may be rejected, both are
\* never accepted.
C3_AtMostOneAccepted ==
    SameNonceWithinRetention => ~ (Earlier.ok /\ io.ok)

C3_Witness ==
    /\ SameNonceWithinRetention
    /\ Earlier.ok
    /\ io.err = "ReplayDetected"
    /\ io.args.now - Earlier.now = nonce_cache.retention_ms
    /\ io.args.request # Earlier.request

\* An accepted request is presented again and still passes the skew check.
RePresented ==
    /\ HasEarlier
    /\ Earlier.ok
    /\ Earlier.request = io.args.request
    /\ ~ SkewExceeded(io.args.now, io.args.request.unix_ms, io.args.skew)

\* C5 as stated: whenever the allowed skew is strictly less than the
\* retention, a request accepted once and presented again within the skew
\* check is rejected with ReplayDetected.
C5_SkewBelowRetention ==
    (RePresented /\ io.args.skew < nonce_cache.retention_ms)
        => (~ io.ok /\ io.err = "ReplayDetected")

\* C5: whenever twice the allowed skew is at most the retention, and the
\* clock never runs backwards, a request accepted once and presented again
\* within the skew check is rejected with ReplayDetected.
C5_TwiceSkewWithinRetention ==
    (RePresented /\ 2 * io.args.skew <= nonce_cache.retention_ms)
        => (~ io.ok /\ io.err = "ReplayDetected")

C5_Witness ==
    /\ RePresented
    /\ 2 * io.args.skew <= nonce_cache.retention_ms
    /\ io.args.now - Earlier.now = 2 * io.args.skew
    /\ io.err = "ReplayDetected"


(***************************************************************************)
(* The reconnect counters                                                  *)
(***************************************************************************)
HandshakeSucceeded == AppliedIn("SecureHandshake", "HandshakeOk") /\ io.result.ok

\* C11: over any sequence of calls, reconnect_elapsed_ms and
\* reconnect_attempts never decrease except on a successful HandshakeOk
\* (SecureHandshake -> Active), which sets both to zero; no other transition
\* and no rejected trigger lowers or resets them.
C11_CountersOnlyResetByHandshakeOk ==
    io.op # "none" =>
        IF HandshakeSucceeded
        THEN /\ machine.reconnect_elapsed_ms = 0
             /\ machine.reconnect_attempts = 0
        ELSE /\ machine.reconnect_elapsed_ms >= io.before.reconnect_elapsed_ms
             /\ machine.reconnect_attempts >= io.before.reconnect_attempts

C11_Witness ==
    /\ HandshakeSucceeded
    /\ io.before.reconnect_elapsed_ms > 0
    /\ io.before.reconnect_attempts > 0
    /\ machine.reconnect_elapsed_ms = 0
    /\ machine.reconnect_attempts = 0


(***************************************************************************)
(* TriggerSpec: the machine of the default timing profile driven by        *)
(* triggers alone, as the engine drives it (it calls apply and nothing     *)
(* else), for as long as events keep coming.  hist.losses counts the       *)
(* accepted PathLost triggers, up to MaxLosses.                            *)
(***************************************************************************)
TriggerInit ==
    /\ machine = ConnectionStateMachine_default
    /\ io = IdleIO
    /\ app = NoApp
    /\ net = NoNet
    /\ hist = [ losses |-> 0 ]
    /\ nonce_cache = NonceReplayCache_default
    /\ trusted_peers = TrustedPeers_default

Drive(trigger) ==
    LET r == apply(machine, trigger)
    IN  /\ machine' = r.machine
        /\ io' = [ op |-> "apply", trigger |-> trigger, before |-> machine,
                   result |-> r.result ]
        /\ hist' = IF trigger = "PathLost" /\ r.result.ok
                   THEN [ losses |-> Min(hist.losses + 1, MaxLosses) ]
                   ELSE hist
        /\ UNCHANGED <<nonce_cache, trusted_peers, app, net>>

TriggerNext == \E trigger \in Triggers : Drive(trigger)

TriggerSpec == TriggerInit /\ [][TriggerNext]_vars /\ WF_vars(TriggerNext)

PathLostApplied == AppliedIn("Active", "PathLost") /\ io.result.ok
BudgetExhausted == machine.state = Failed("RetryBudgetExhausted")

\* C12: with the default timing profile, a machine driven by triggers that
\* loses its path again and again accumulates reconnect_elapsed_ms until the
\* budget of 15 000 ms is used up, and lands in Failed(RetryBudgetExhausted).
C12_RepeatedPathLostExhaustsBudget ==
    ([]<>PathLostApplied) => <>BudgetExhausted

\* The last of MaxLosses losses leaves the counters where the first left them.
C12_Witness ==
    /\ PathLostApplied
    /\ hist.losses = MaxLosses
    /\ machine.reconnect_attempts = 1
    /\ machine.reconnect_elapsed_ms = TimingProfile_default.reconnect_backoff_start_ms


(***************************************************************************)
(* The trust decision                                                      *)
(***************************************************************************)
ObservedKnown == ObservedDeviceCode \in DOMAIN io.before.trusted
ObservedRecord ==
    TrustedPeerRecord(ObservedDeviceCode, ObservedPeerId, ObservedPubkeyHex,
                      io.args.now, io.args.now)
StoreChangedFlag == Unwrap(io.peer).trust_store_changed

\* C13: for a request that passes every earlier check: device code unknown
\* and TOFU on -> accepted, a record with first_seen = last_seen = now is
\* inserted, trust_store_changed = true; unknown and TOFU off -> UntrustedPeer,
\* nothing inserted; known with the stored peer id and public key bytes ->
\* accepted, with trust_store_changed = true and last_seen := now exactly
\* when now - last_seen >= LAST_SEEN_PERSIST_INTERVAL_MS, and the store left
\* as it was otherwise.
C13_TrustDecision ==
    ReachedTrustStore =>
        IF ~ ObservedKnown
        THEN IF io.args.tofu
             THEN /\ io.ok
                  /\ StoreChangedFlag
                  /\ trusted_peers
                       = Insert(io.before.trusted, ObservedDeviceCode, ObservedRecord)
             ELSE /\ ~ io.ok
                  /\ io.err = "UntrustedPeer"
                  /\ trusted_peers = io.before.trusted
        ELSE ~ ObservedMismatch =>
             LET old == io.before.trusted[ObservedDeviceCode]
                 due == io.args.now - old.last_seen_unix_ms
                            >= LAST_SEEN_PERSIST_INTERVAL_MS
             IN  /\ io.ok
                 /\ StoreChangedFlag = due
                 /\ trusted_peers =
                      IF due
                      THEN [ io.before.trusted EXCEPT
                               ![ObservedDeviceCode].last_seen_unix_ms = io.args.now ]
                      ELSE io.before.trusted

\* A known sender comes back exactly one persist interval after it was last
\* seen, and its record is touched.
C13_Witness ==
    /\ ReachedTrustStore
    /\ ObservedKnown
    /\ ~ ObservedMismatch
    /\ io.args.now - io.before.trusted[ObservedDeviceCode].last_seen_unix_ms
           = LAST_SEEN_PERSIST_INTERVAL_MS
    /\ StoreChangedFlag
    /\ trusted_peers[ObservedDeviceCode].last_seen_unix_ms = io.args.now


(***************************************************************************)
(* The node engine (apps/aetherlink-node/src/main.rs).                     *)
(*                                                                         *)
(* A handler works on a node n = [app, swarm]: app is the App struct,      *)
(* swarm what the handler asks of the libp2p swarm (the next outbound      *)
(* request id, the connected peers, and the requests, responses and        *)
(* disconnects issued, in order, in `sent`).  unix_ms() is the argument    *)
(* now_unix_ms of a handler and random_nonce(16) its argument nonce.       *)
(***************************************************************************)
PROTOCOL_MAJOR == 1
TICK_INTERVAL_MS == 200

Remove(map, key) == [ k \in (DOMAIN map) \ {key} |-> map[k] ]

ControlKeepaliveState_default ==
    [ next_seq |-> 0, last_send_unix_ms |-> 0, awaiting_seq |-> None,
      awaiting_since_unix_ms |-> None, consecutive_misses |-> 0 ]

PendingOutboundSession(session_id) ==
    [ session_id |-> session_id, request_nonces |-> << >>,
      last_send_unix_ms |-> 0, attempts |-> 0 ]

\* App::new; the fields of device discovery are left out.
App_new(local_key, auto_request, trusted_peers_arg, trust_on_first_use, session_request_timeout_ms, session_request_max_attempts, control_keepalive_interval_ms, control_keepalive_timeout_ms, control_keepalive_max_misses) ==
    [ local_key |-> local_key,
      local_peer_id |-> PeerId_from_public_key(local_key),
      local_device_code |-> PeerId_to_string(PeerId_from_public_key(local_key)),
      auto_request |-> auto_request,
      sessions |-> << >>,
      pending_outbound_sessions |-> << >>,
      nonce_cache |-> NonceReplayCache_default,
      trusted_peers |-> trusted_peers_arg,
      trust_on_first_use |-> trust_on_first_use,
      session_request_timeout_ms |-> Max(session_request_timeout_ms, 100),
      session_request_max_attempts |-> Max(session_request_max_attempts, 1),
      connect_device_codes |-> {},
      active_sessions |-> << >>,
      control_keepalive |-> << >>,
      control_keepalive_interval_ms |-> Max(control_keepalive_interval_ms, 300),
      control_keepalive_timeout_ms |-> Max(control_keepalive_timeout_ms, 500),
      control_keepalive_max_misses |-> Max(control_keepalive_max_misses, 1),
      pending_outbound_control_requests |-> << >>,
      device_lookup_interval_ms |-> Max(2500, 500),
      pending_device_lookup_queries |-> << >>,
      last_device_lookup_unix_ms |-> << >>,
      last_peer_dial_unix_ms |-> << >> ]

Swarm_new ==
    [ next_request_id |-> 1, next_query_id |-> 1, connected_peers |-> {}, sent |-> << >> ]

should_auto_request_for_peer(a, peer_id) ==
    IF ~ a.auto_request THEN FALSE
    ELSE IF a.connect_device_codes = {} THEN TRUE
    ELSE PeerId_to_string(peer_id) \in a.connect_device_codes

should_send_session_request(a, peer_id) ==
    IF ~ should_auto_request_for_peer(a, peer_id) THEN FALSE
    ELSE IF peer_id \in DOMAIN a.pending_outbound_sessions THEN FALSE
    ELSE IF /\ peer_id \in DOMAIN a.sessions
            /\ a.sessions[peer_id].state = St("Active") THEN FALSE
    ELSE TRUE

set_active_session(a, peer_id, session_id) ==
    [ a EXCEPT !.active_sessions = Insert(@, peer_id, session_id),
               !.control_keepalive =
                    IF peer_id \in DOMAIN @ THEN @
                    ELSE Insert(@, peer_id, ControlKeepaliveState_default) ]

clear_active_session(a, peer_id) ==
    [ a EXCEPT !.active_sessions = Remove(@, peer_id),
               !.control_keepalive = Remove(@, peer_id) ]

\* Returns the App; the round-trip time it also returns is only logged.
note_control_pong(a, peer_id, pong) ==
    IF peer_id \notin DOMAIN a.active_sessions THEN a
    ELSE IF a.active_sessions[peer_id] # pong.session_id THEN a
    ELSE IF peer_id \notin DOMAIN a.control_keepalive THEN a
    ELSE LET state == a.control_keepalive[peer_id] IN
    IF IsSome(state.awaiting_seq) /\ Unwrap(state.awaiting_seq) # pong.seq THEN a
    ELSE [ a EXCEPT !.control_keepalive[peer_id] =
             [ state EXCEPT !.awaiting_seq = None,
                            !.awaiting_since_unix_ms = None,
                            !.consecutive_misses = 0 ] ]

\* Returns [app, lost].
note_keepalive_send_failure(a, peer_id, seq) ==
    IF peer_id \notin DOMAIN a.control_keepalive THEN [ app |-> a, lost |-> FALSE ]
    ELSE LET state == a.control_keepalive[peer_id] IN
    IF state.awaiting_seq # Some(seq) THEN [ app |-> a, lost |-> FALSE ]
    ELSE [ app |-> [ a EXCEPT !.control_keepalive[peer_id] =
                       [ state EXCEPT !.awaiting_seq = None,
                                      !.awaiting_since_unix_ms = None,
                                      !.consecutive_misses = @ + 1 ] ],
           lost |-> state.consecutive_misses + 1 >= a.control_keepalive_max_misses ]

on_connected(a, peer_id) ==
    LET entry == IF peer_id \in DOMAIN a.sessions THEN a.sessions[peer_id]
                 ELSE ConnectionStateMachine_default
        m1 == apply(entry, "StartConnect").machine
        m2 == apply(m1, "CandidatesFound").machine
        m3 == apply(m2, "DirectConnected").machine
    IN  [ a EXCEPT !.sessions = Insert(@, peer_id, m3) ]

DriveSession(a, peer_id, trigger) ==
    IF peer_id \in DOMAIN a.sessions
    THEN [ a EXCEPT !.sessions[peer_id] = apply(@, trigger).machine ]
    ELSE a

\* on_disconnected that forgets every pending outbound session.
on_disconnected_DropsEveryPending(a, peer_id) ==
    DriveSession(clear_active_session([ a EXCEPT !.pending_outbound_sessions = << >> ],
                                      peer_id),
                 peer_id, "PathLost")

on_disconnected(a, peer_id) ==
    LET a1 == [ a EXCEPT !.pending_outbound_sessions = Remove(@, peer_id) ]
        a2 == clear_active_session(a1, peer_id)
    IN  DriveSession(a2, peer_id, "PathLost")

\* on_accept that records the session and leaves the state machine alone.
on_accept_WithoutHandshakeOk(a, peer_id, session_id) ==
    set_active_session(a, peer_id, session_id)

on_accept(a, peer_id, session_id) ==
    DriveSession(set_active_session(a, peer_id, session_id), peer_id, "HandshakeOk")

\* on_auth_failed that also forgets the peer's active session.
on_auth_failed_ClearsSession(a, peer_id) ==
    clear_active_session(DriveSession(a, peer_id, "AuthFailed"), peer_id)

on_auth_failed(a, peer_id) == DriveSession(a, peer_id, "AuthFailed")


(***************************************************************************)
(* Control messages.  An envelope carries one of SessionRequest,           *)
(* SessionAccept, SessionReject, Ping, Pong, or no message.                *)
(***************************************************************************)
\* SessionRequest.version: None, or Some(major).
WithVersion(request, version) ==
    [ f \in (DOMAIN request) \cup {"version"} |->
        IF f = "version" THEN version ELSE request[f] ]

SessionAccept(session_id, from, nonce, unix_ms, request_nonce) ==
    [ session_id |-> session_id, from |-> from, nonce |-> nonce,
      unix_ms |-> unix_ms, signature |-> EmptySignature,
      request_nonce |-> request_nonce ]

\* sign_session_accept is not among the sources; spec 3: "the signature
\* covers canonical serialization with signature cleared and with
\* request_nonce included".
sign_session_accept(accept, keypair) ==
    [ accept EXCEPT !.signature =
        Keypair_sign(keypair, [ accept EXCEPT !.signature = EmptySignature ]) ]

\* verify_session_accept is not among the sources; spec 4.4: "same rules as
\* request, plus: (a) request_nonce nonempty and equals one of the
\* pending-session nonces recorded for this peer; (b) session_id equals the
\* pending session's; (c) responder identity binding mirrors request's from
\* checks".  The engine passes no expected request nonce and makes check (a)
\* itself before the call.
verify_session_accept(accept, transport_peer_id, expected_session_id, expected_request_nonce, now_unix_ms, allowed_skew_ms, replay_cache, trusted, trust_on_first_use) ==
    IF ~ IsSome(accept.from) THEN
        AuthErr("MissingResponderIdentity", replay_cache, trusted)
    ELSE IF /\ IsSome(expected_session_id)
            /\ accept.session_id # Unwrap(expected_session_id) THEN
        AuthErr("SessionIdMismatch", replay_cache, trusted)
    ELSE IF Len(accept.request_nonce) = 0 THEN
        AuthErr("MissingRequestNonceBinding", replay_cache, trusted)
    ELSE IF /\ IsSome(expected_request_nonce)
            /\ accept.request_nonce # Unwrap(expected_request_nonce) THEN
        AuthErr("RequestNonceMismatch", replay_cache, trusted)
    ELSE verify_session_request(accept, transport_peer_id, None, now_unix_ms,
                                allowed_skew_ms, replay_cache, trusted,
                                trust_on_first_use)

EnvSessionRequest(req) == [ kind |-> "SessionRequest", req |-> req ]
EnvSessionAccept(accept) == [ kind |-> "SessionAccept", accept |-> accept ]
EnvSessionReject(session_id, reason) ==
    [ kind |-> "SessionReject", session_id |-> session_id, reason |-> reason ]
EnvPing(session_id, seq, send_unix_ms) ==
    [ kind |-> "Ping", session_id |-> session_id, seq |-> seq,
      send_unix_ms |-> send_unix_ms ]
EnvPong(session_id, seq, echo_send_unix_ms) ==
    [ kind |-> "Pong", session_id |-> session_id, seq |-> seq,
      echo_send_unix_ms |-> echo_send_unix_ms ]
EnvEmpty == [ kind |-> "None" ]
\* Bytes that ControlEnvelope::decode refuses.
EnvUndecodable == [ kind |-> "Undecodable" ]

map_auth_error_to_reject_AlwaysAuthFailed(err) == "AuthFailed"

map_auth_error_to_reject(err) ==
    IF err = "InvalidTargetDeviceCode" THEN "PolicyDenied"
    ELSE IF err \in { "UntrustedPeer", "TrustedPeerMismatch" } THEN "PolicyDenied"
    ELSE "AuthFailed"

(***************************************************************************)
(* What a handler asks of the swarm.                                       *)
(***************************************************************************)
\* control.send_request: queues the request and returns its OutboundRequestId,
\* which the caller records with the kind of the request.
send_request(n, peer_id, env, kind) ==
    LET request_id == n.swarm.next_request_id
    IN  [ n EXCEPT
            !.swarm.next_request_id = @ + 1,
            !.swarm.sent = Append(@, [ op |-> "request", peer |-> peer_id,
                                       id |-> request_id, env |-> env ]),
            !.app.pending_outbound_control_requests = Insert(@, request_id, kind) ]

\* control.send_response(channel, ..).map_err(..)?: on a closed channel the
\* handler returns the error, which ends main's loop.
send_response(n, channel, env) ==
    IF channel.open
    THEN [ n EXCEPT !.swarm.sent =
             Append(@, [ op |-> "response", peer |-> channel.peer,
                         id |-> channel.id, env |-> env ]) ]
    ELSE [ n EXCEPT !.exited = TRUE ]

disconnect_peer_id(n, peer_id) ==
    [ n EXCEPT !.swarm.sent = Append(@, [ op |-> "disconnect", peer |-> peer_id ]) ]

KindSessionRequest == [ kind |-> "SessionRequest" ]
KindKeepalivePing(seq) == [ kind |-> "KeepalivePing", seq |-> seq ]

SessionIdAt(now_unix_ms) == << "session-", now_unix_ms >>

build_session_request(a, peer_id, session_id, request_nonce, now_unix_ms) ==
    sign_session_request(
        WithVersion(
            SessionRequest(session_id,
                           Some(DeviceIdentity(PeerId_to_bytes(a.local_peer_id),
                                               encode_protobuf(a.local_key),
                                               a.local_device_code)),
                           PeerId_to_string(peer_id), request_nonce, now_unix_ms),
            Some(PROTOCOL_MAJOR)),
        a.local_key)

\* send_session_request that keeps one nonce fewer than the attempts allowed.
send_session_request_EvictsEarly(n, peer_id, now_unix_ms, request_nonce) ==
    LET known == peer_id \in DOMAIN n.app.pending_outbound_sessions
        session_id == IF known THEN n.app.pending_outbound_sessions[peer_id].session_id
                      ELSE SessionIdAt(now_unix_ms)
        req == build_session_request(n.app, peer_id, session_id, request_nonce, now_unix_ms)
        n1 == send_request(n, peer_id, EnvSessionRequest(req), KindSessionRequest)
        entry == IF known THEN n.app.pending_outbound_sessions[peer_id]
                 ELSE PendingOutboundSession(session_id)
        nonces == Append(entry.request_nonces, request_nonce)
        pending == [ entry EXCEPT
                       !.last_send_unix_ms = now_unix_ms,
                       !.attempts = @ + 1,
                       !.request_nonces =
                           IF Len(nonces) >= n.app.session_request_max_attempts
                           THEN Tail(nonces) ELSE nonces ]
    IN  [ n1 EXCEPT !.app.pending_outbound_sessions = Insert(@, peer_id, pending) ]

send_session_request(n, peer_id, now_unix_ms, request_nonce) ==
    LET known == peer_id \in DOMAIN n.app.pending_outbound_sessions
        session_id == IF known THEN n.app.pending_outbound_sessions[peer_id].session_id
                      ELSE SessionIdAt(now_unix_ms)
        req == build_session_request(n.app, peer_id, session_id, request_nonce, now_unix_ms)
        n1 == send_request(n, peer_id, EnvSessionRequest(req), KindSessionRequest)
        entry == IF known THEN n.app.pending_outbound_sessions[peer_id]
                 ELSE PendingOutboundSession(session_id)
        nonces == Append(entry.request_nonces, request_nonce)
        pending == [ entry EXCEPT
                       !.last_send_unix_ms = now_unix_ms,
                       !.attempts = @ + 1,
                       !.request_nonces =
                           IF Len(nonces) > n.app.session_request_max_attempts
                           THEN Tail(nonces) ELSE nonces ]
    IN  [ n1 EXCEPT !.app.pending_outbound_sessions = Insert(@, peer_id, pending) ]

send_control_ping(n, peer_id, session_id, seq, now_unix_ms) ==
    send_request(n, peer_id, EnvPing(session_id, seq, now_unix_ms), KindKeepalivePing(seq))

send_session_reject(n, channel, session_id, reason) ==
    send_response(n, channel, EnvSessionReject(session_id, reason))


(***************************************************************************)
(* Keepalive and retry bookkeeping.                                        *)
(***************************************************************************)
\* A pass that pings on schedule whether or not a Pong is still awaited.
keepalive_pass_IgnoresAwaiting(state, now_unix_ms, a) ==
    IF now_unix_ms - state.last_send_unix_ms < a.control_keepalive_interval_ms
    THEN [ state |-> state, send |-> FALSE, lost |-> FALSE ]
    ELSE [ state |-> [ state EXCEPT !.next_seq = @ + 1,
                                    !.last_send_unix_ms = now_unix_ms,
                                    !.awaiting_seq = Some(state.next_seq + 1),
                                    !.awaiting_since_unix_ms = Some(now_unix_ms) ],
           send |-> TRUE, lost |-> FALSE ]

\* A pass that ends at a timeout: no Ping in the tick that counts a miss.
keepalive_pass_EndsAtTimeout(state, now_unix_ms, a) ==
    LET r == keepalive_pass_IgnoresAwaiting(state, now_unix_ms, a)
        timed_out == /\ IsSome(state.awaiting_since_unix_ms)
                     /\ now_unix_ms - Unwrap(state.awaiting_since_unix_ms)
                            >= a.control_keepalive_timeout_ms
        missed == [ state EXCEPT !.awaiting_since_unix_ms = None,
                                 !.awaiting_seq = None,
                                 !.consecutive_misses = @ + 1 ]
    IN  IF timed_out
        THEN [ state |-> missed, send |-> FALSE,
               lost |-> missed.consecutive_misses >= a.control_keepalive_max_misses ]
        ELSE IF IsSome(state.awaiting_since_unix_ms)
        THEN [ state |-> state, send |-> FALSE, lost |-> FALSE ]
        ELSE r

\* The body of the loop of collect_keepalive_actions for one active,
\* connected peer: [state, send, lost].
keepalive_pass(state, now_unix_ms, a) ==
    LET timed_out == /\ IsSome(state.awaiting_since_unix_ms)
                     /\ now_unix_ms - Unwrap(state.awaiting_since_unix_ms)
                            >= a.control_keepalive_timeout_ms
        s1 == IF timed_out
              THEN [ state EXCEPT !.awaiting_since_unix_ms = None,
                                  !.awaiting_seq = None,
                                  !.consecutive_misses = @ + 1 ]
              ELSE state
        lost == timed_out /\ s1.consecutive_misses >= a.control_keepalive_max_misses
    IN  IF IsSome(state.awaiting_since_unix_ms) /\ ~ timed_out
        THEN [ state |-> state, send |-> FALSE, lost |-> FALSE ]
        ELSE IF now_unix_ms - s1.last_send_unix_ms < a.control_keepalive_interval_ms
        THEN [ state |-> s1, send |-> FALSE, lost |-> lost ]
        ELSE [ state |-> [ s1 EXCEPT !.next_seq = @ + 1,
                                     !.last_send_unix_ms = now_unix_ms,
                                     !.awaiting_seq = Some(s1.next_seq + 1),
                                     !.awaiting_since_unix_ms = Some(now_unix_ms) ],
               send |-> TRUE, lost |-> lost ]

\* [app, send_actions, lost_peers]
collect_keepalive_actions(a, now_unix_ms, connected_peers) ==
    LET active == { p \in DOMAIN a.active_sessions : p \in connected_peers }
        entry(p) == IF p \in DOMAIN a.control_keepalive THEN a.control_keepalive[p]
                    ELSE ControlKeepaliveState_default
        pass(p) == keepalive_pass(entry(p), now_unix_ms, a)
    IN  [ app |-> [ a EXCEPT !.control_keepalive =
                      [ p \in (DOMAIN @) \cup active |->
                          IF p \in active THEN pass(p).state ELSE @[p] ] ],
          send_actions |-> { << p, a.active_sessions[p], pass(p).state.next_seq >> :
                               p \in { q \in active : pass(q).send } },
          lost_peers |-> { p \in active : pass(p).lost } ]

\* Retry decision that gives up one attempt early.
collect_pending_retry_actions_OneShort(a, now_unix_ms) ==
    LET due == { p \in DOMAIN a.pending_outbound_sessions :
                   now_unix_ms - a.pending_outbound_sessions[p].last_send_unix_ms
                       >= a.session_request_timeout_ms }
    IN  [ retry |-> { p \in due : a.pending_outbound_sessions[p].attempts + 1
                                      < a.session_request_max_attempts },
          fail |-> { p \in due : ~ ( a.pending_outbound_sessions[p].attempts + 1
                                       < a.session_request_max_attempts ) } ]

\* [retry, fail]
collect_pending_retry_actions(a, now_unix_ms) ==
    LET due == { p \in DOMAIN a.pending_outbound_sessions :
                   now_unix_ms - a.pending_outbound_sessions[p].last_send_unix_ms
                       >= a.session_request_timeout_ms }
    IN  [ retry |-> { p \in due : a.pending_outbound_sessions[p].attempts
                                      < a.session_request_max_attempts },
          fail |-> { p \in due : ~ ( a.pending_outbound_sessions[p].attempts
                                       < a.session_request_max_attempts ) } ]

RECURSIVE RetryEach(_, _, _, _)
RetryEach(n, peers, now_unix_ms, request_nonce) ==
    IF peers = {} THEN n
    ELSE LET p == CHOOSE q \in peers : TRUE
         IN  RetryEach(send_session_request(n, p, now_unix_ms, request_nonce),
                       peers \ {p}, now_unix_ms, request_nonce)

RECURSIVE FailEach(_, _)
FailEach(a, peers) ==
    IF peers = {} THEN a
    ELSE LET p == CHOOSE q \in peers : TRUE
         IN  FailEach(on_auth_failed(
                          [ a EXCEPT !.pending_outbound_sessions = Remove(@, p) ], p),
                      peers \ {p})

handle_pending_session_timeouts(n, now_unix_ms, request_nonce) ==
    LET actions == collect_pending_retry_actions(n.app, now_unix_ms)
        n1 == RetryEach(n, actions.retry, now_unix_ms, request_nonce)
    IN  [ n1 EXCEPT !.app = FailEach(@, actions.fail) ]

RECURSIVE PingEach(_, _, _)
PingEach(n, send_actions, now_unix_ms) ==
    IF send_actions = {} THEN n
    ELSE LET s == CHOOSE x \in send_actions : TRUE
         IN  PingEach(send_control_ping(n, s[1], s[2], s[3], now_unix_ms),
                      send_actions \ {s}, now_unix_ms)

RECURSIVE LoseEach(_, _)
LoseEach(n, peers) ==
    IF peers = {} THEN n
    ELSE LET p == CHOOSE q \in peers : TRUE
         IN  LoseEach(disconnect_peer_id(
                          [ n EXCEPT !.app = clear_active_session(@, p) ], p),
                      peers \ {p})

handle_control_keepalive_tick(n, now_unix_ms) ==
    LET actions == collect_keepalive_actions(n.app, now_unix_ms, n.swarm.connected_peers)
        n1 == PingEach([ n EXCEPT !.app = actions.app ], actions.send_actions, now_unix_ms)
    IN  LoseEach(n1, actions.lost_peers)

(***************************************************************************)
(* Control requests and responses.                                         *)
(***************************************************************************)
Major(req) == IF IsSome(req.version) THEN Unwrap(req.version) ELSE 0

\* The result of verify_session_request as handle_control_request calls it.
VerifyInbound(a, peer, req, now_unix_ms) ==
    verify_session_request(req, Some(peer), Some(a.local_device_code), now_unix_ms,
                           DEFAULT_ALLOWED_SKEW_MS, a.nonce_cache, a.trusted_peers,
                           a.trust_on_first_use)

handle_control_request(n, peer, env, channel, now_unix_ms, accept_nonce) ==
    IF env.kind = "Undecodable" THEN [ n EXCEPT !.exited = TRUE ]
    ELSE IF env.kind = "SessionRequest" THEN
        LET req == env.req IN
        IF Major(req) # PROTOCOL_MAJOR
        THEN send_session_reject(n, channel, req.session_id, "VersionMismatch")
        ELSE
        LET v == VerifyInbound(n.app, peer, req, now_unix_ms)
            n1 == [ n EXCEPT !.app.nonce_cache = v.cache,
                             !.app.trusted_peers = v.trusted ]
        IN  IF ~ v.ok
            THEN send_session_reject([ n1 EXCEPT !.app = on_auth_failed(@, peer) ],
                                     channel, req.session_id,
                                     map_auth_error_to_reject(v.err))
            ELSE
            LET accept == sign_session_accept(
                              SessionAccept(req.session_id,
                                  Some(DeviceIdentity(PeerId_to_bytes(n.app.local_peer_id),
                                                      encode_protobuf(n.app.local_key),
                                                      n.app.local_device_code)),
                                  accept_nonce, now_unix_ms, req.nonce),
                              n.app.local_key)
                n2 == send_response(n1, channel, EnvSessionAccept(accept))
            IN  IF n2.exited THEN n2
                ELSE [ n2 EXCEPT !.app = on_accept(@, peer, accept.session_id) ]
    ELSE IF env.kind = "Ping" THEN
        send_response(n, channel, EnvPong(env.session_id, env.seq, env.send_unix_ms))
    ELSE n

\* The accept handler without the request-nonce binding.
AcceptBound_Unchecked(pending, accept) == TRUE

\* Binding to the latest attempt only.
AcceptBound_LatestOnly(pending, accept) ==
    /\ Len(accept.request_nonce) # 0
    /\ Len(pending.request_nonces) # 0
    /\ pending.request_nonces[Len(pending.request_nonces)] = accept.request_nonce

\* accept.request_nonce is nonempty and is one of pending.request_nonces.
AcceptBound(pending, accept) ==
    /\ Len(accept.request_nonce) # 0
    /\ \E i \in 1 .. Len(pending.request_nonces) :
           pending.request_nonces[i] = accept.request_nonce

VerifyAccept(a, peer, pending, accept, now_unix_ms) ==
    verify_session_accept(accept, Some(peer), Some(pending.session_id), None,
                          now_unix_ms, DEFAULT_ALLOWED_SKEW_MS, a.nonce_cache,
                          a.trusted_peers, a.trust_on_first_use)

handle_control_response(n, peer, request_id, env, now_unix_ms) ==
    LET kinds == n.app.pending_outbound_control_requests
        request_kind == IF request_id \in DOMAIN kinds THEN Some(kinds[request_id])
                        ELSE None
        n0 == [ n EXCEPT !.app.pending_outbound_control_requests = Remove(@, request_id) ]
    IN
    IF env.kind = "Undecodable" THEN [ n0 EXCEPT !.exited = TRUE ]
    ELSE IF env.kind = "SessionAccept" THEN
        IF peer \notin DOMAIN n0.app.pending_outbound_sessions
        THEN [ n0 EXCEPT !.app = on_auth_failed(@, peer) ]
        ELSE
        LET pending == n0.app.pending_outbound_sessions[peer]
            n1 == [ n0 EXCEPT !.app.pending_outbound_sessions = Remove(@, peer) ]
        IN  IF ~ AcceptBound(pending, env.accept)
            THEN [ n1 EXCEPT !.app = on_auth_failed(@, peer) ]
            ELSE
            LET v == VerifyAccept(n1.app, peer, pending, env.accept, now_unix_ms)
                n2 == [ n1 EXCEPT !.app.nonce_cache = v.cache,
                                  !.app.trusted_peers = v.trusted ]
            IN  IF ~ v.ok
                THEN [ n2 EXCEPT !.app = on_auth_failed(@, peer) ]
                ELSE [ n2 EXCEPT !.app = on_accept(@, peer, env.accept.session_id) ]
    ELSE IF env.kind = "SessionReject" THEN
        [ n0 EXCEPT !.app = on_auth_failed(
              [ @ EXCEPT !.pending_outbound_sessions = Remove(@, peer) ], peer) ]
    ELSE IF env.kind = "Pong" THEN
        IF /\ IsSome(request_kind)
           /\ Unwrap(request_kind).kind = "KeepalivePing"
           /\ Unwrap(request_kind).seq = env.seq
        THEN [ n0 EXCEPT !.app = note_control_pong(@, peer, env) ]
        ELSE n0
    ELSE n0

\* handle_behaviour_event, request_response::Event::OutboundFailure
handle_outbound_failure(n, peer, request_id) ==
    LET kinds == n.app.pending_outbound_control_requests
        n0 == [ n EXCEPT !.app.pending_outbound_control_requests = Remove(@, request_id) ]
    IN  IF request_id \notin DOMAIN kinds THEN n0
        ELSE IF kinds[request_id].kind = "SessionRequest"
        THEN [ n0 EXCEPT !.app = on_auth_failed(
                 [ @ EXCEPT !.pending_outbound_sessions = Remove(@, peer) ], peer) ]
        ELSE LET r == note_keepalive_send_failure(n0.app, peer, kinds[request_id].seq)
             IN  IF r.lost
                 THEN disconnect_peer_id(
                          [ n0 EXCEPT !.app = clear_active_session(r.app, peer) ], peer)
                 ELSE [ n0 EXCEPT !.app = r.app ]

\* main, SwarmEvent::ConnectionEstablished
handle_connection_established(n, peer_id, now_unix_ms, request_nonce) ==
    LET n1 == [ n EXCEPT !.app = on_connected(@, peer_id),
                         !.swarm.connected_peers = @ \cup {peer_id} ]
    IN  IF should_send_session_request(n1.app, peer_id)
        THEN send_session_request(n1, peer_id, now_unix_ms, request_nonce)
        ELSE n1

\* main, SwarmEvent::ConnectionClosed
handle_connection_closed(n, peer_id) ==
    [ n EXCEPT !.app = on_disconnected(@, peer_id),
               !.swarm.connected_peers = @ \ {peer_id} ]

\* main, the tick branch of the loop (device discovery left out).
handle_tick(n, now_unix_ms, request_nonce) ==
    CHOOSE after \in
        { handle_control_keepalive_tick(retried, now_unix_ms) :
            retried \in { handle_pending_session_timeouts(n, now_unix_ms, request_nonce) } } : TRUE


(***************************************************************************)
(* EngineSpec: one running node and one remote peer.  The remote peer and  *)
(* the transport are the environment: connections come and go, the peer    *)
(* sends whatever control requests it likes, answers (or fails) the node's *)
(* outstanding requests as it likes, and the clock advances tick by tick.  *)
(***************************************************************************)
MaxEngineTicks == 3     \* steps of the engine clock
MaxRequestIds == 2      \* outbound requests a node issues

\* The clock advances by six tick intervals at a time: the ticks in between
\* fall inside every timeout and do nothing.
TickStepMs == 6 * TICK_INTERVAL_MS

LocalKey == 1
RemoteKey == 2
Local == KeyPeerId(LocalKey)
Remote == KeyPeerId(RemoteKey)

\* random_nonce(16): 128 random bits, taken to be fresh on every call; the
\* nonce of the node's k-th outbound request is k sixteen times.
random_nonce(n) == Nonce(n.swarm.next_request_id, 16)

\* A nonce the node never drew.
ForeignNonce == Nonce(9, 16)

Identity(key) ==
    DeviceIdentity(PeerId_to_bytes(KeyPeerId(key)), encode_protobuf(key),
                   PeerId_to_string(KeyPeerId(key)))

\* A trust store loaded at start-up that pins the remote device code to
\* another key.
PinnedElsewhere ==
    LET code == PeerId_to_string(Remote)
    IN  Insert(TrustedPeers_default, code,
               TrustedPeerRecord(code, PeerId_to_string(Local),
                                 encode_hex(encode_protobuf(LocalKey)), 0, 0))

\* --session-request-max-attempts 2, --control-keepalive-timeout-ms 2400,
\* --control-keepalive-max-misses 1; the other arguments at their defaults.
EngineApp(key, auto_request, trusted, tofu) ==
    App_new(key, auto_request, trusted, tofu, 1200, 2, 1000, 2400, 1)

\* --auto-request and --trust-on-first-use as given on the command line, and
\* the trust store found on disk.
EngineConfigs ==
    { [ auto_request |-> TRUE, tofu |-> TRUE, trusted |-> TrustedPeers_default ],
      [ auto_request |-> FALSE, tofu |-> TRUE, trusted |-> TrustedPeers_default ],
      [ auto_request |-> FALSE, tofu |-> FALSE, trusted |-> TrustedPeers_default ],
      [ auto_request |-> FALSE, tofu |-> TRUE, trusted |-> PinnedElsewhere ] }

NodeOf(x) == [ app |-> app[x], swarm |-> [ net.swarm[x] EXCEPT !.sent = << >> ],
               exited |-> net.exited[x] ]

Running(x) == ~ net.exited[x]

\* The handler of node x took it to n.
Commit(x, n, event) ==
    /\ app' = [ app EXCEPT ![x] = n.app ]
    /\ net' = [ net EXCEPT !.swarm[x] = n.swarm, !.exited[x] = n.exited ]
    /\ io' = [ event EXCEPT !.before = app[x] ]
    /\ UNCHANGED <<nonce_cache, trusted_peers, machine, hist>>

Event(op, node, peer) == [ op |-> op, node |-> node, peer |-> peer, before |-> << >> ]

EngineInit ==
    /\ \E config \in EngineConfigs :
          app = [ x \in {LocalKey} |->
                    EngineApp(x, config.auto_request, config.trusted, config.tofu) ]
    /\ net = [ clock |-> 0,
               swarm |-> [ x \in {LocalKey} |-> Swarm_new ],
               exited |-> [ x \in {LocalKey} |-> FALSE ] ]
    /\ io = IdleIO
    /\ hist = NoHist
    /\ nonce_cache = NonceReplayCache_default
    /\ trusted_peers = TrustedPeers_default
    /\ machine = ConnectionStateMachine_default

CanRequest(x) == net.swarm[x].next_request_id <= MaxRequestIds

ConnectionEstablished(x, peer) ==
    /\ Running(x)
    /\ CanRequest(x)
    /\ Commit(x, handle_connection_established(NodeOf(x), peer, net.clock,
                                                random_nonce(NodeOf(x))),
              Event("ConnectionEstablished", x, peer))

ConnectionClosed(x, peer) ==
    /\ Running(x)
    /\ peer \in net.swarm[x].connected_peers
    /\ Commit(x, handle_connection_closed(NodeOf(x), peer),
              Event("ConnectionClosed", x, peer))

\* Session requests the remote peer may send at time now.
InboundRequests(now) ==
    LET honest(nonce, unix_ms, target, version) ==
            WithVersion(SessionRequest(SessionIdAt(0), Some(Identity(RemoteKey)),
                                       target, nonce, unix_ms), version)
        good == honest(Nonce(3, 16), now, PeerId_to_string(Local), Some(PROTOCOL_MAJOR))
    IN  { sign_session_request(good, RemoteKey),
          good,
          sign_session_request(
              honest(Nonce(3, 16), now, PeerId_to_string(Local), Some(2)), RemoteKey),
          sign_session_request(
              honest(Nonce(3, 16), now, PeerId_to_string(Local), None), RemoteKey),
          sign_session_request(
              honest(Nonce(3, 16), now, PeerId_to_string(Remote), Some(PROTOCOL_MAJOR)),
              RemoteKey),
          sign_session_request(
              honest(Nonce(3, 16), now + DEFAULT_ALLOWED_SKEW_MS + 1,
                     PeerId_to_string(Local), Some(PROTOCOL_MAJOR)), RemoteKey),
          sign_session_request(
              honest(Nonce(3, 4), now, PeerId_to_string(Local), Some(PROTOCOL_MAJOR)),
              RemoteKey) }

InboundEnvelopes(now) ==
    { EnvSessionRequest(req) : req \in InboundRequests(now) }
        \cup { EnvPing(SessionIdAt(0), 1, now), EnvEmpty, EnvUndecodable }

ControlRequest(x, peer) ==
    /\ Running(x)
    /\ peer \in net.swarm[x].connected_peers
    /\ \E env \in InboundEnvelopes(net.clock), open \in BOOLEAN :
         LET channel == [ peer |-> peer, id |-> 0, open |-> open ]
         IN  Commit(x, handle_control_request(NodeOf(x), peer, env, channel,
                                              net.clock, Nonce(4, 16)),
                    [ Event("ControlRequest", x, peer) EXCEPT !.before = << >> ]
                        @@ [ env |-> env, channel |-> channel ])

\* Responses the remote peer may give at time now to a node whose pending
\* session (if any) is `pending`.
Responses(a, peer, now) ==
    LET known == peer \in DOMAIN a.pending_outbound_sessions
        session_id == IF known THEN a.pending_outbound_sessions[peer].session_id
                      ELSE SessionIdAt(0)
        retained == IF known
                    THEN { a.pending_outbound_sessions[peer].request_nonces[i] :
                             i \in 1 .. Len(a.pending_outbound_sessions[peer].request_nonces) }
                    ELSE { Nonce(1, 16) }
        active_id == IF peer \in DOMAIN a.active_sessions THEN a.active_sessions[peer]
                     ELSE SessionIdAt(0)
        accept(s, request_nonce) ==
            SessionAccept(s, Some(Identity(RemoteKey)), Nonce(5, 16), now, request_nonce)
    IN  { EnvSessionAccept(sign_session_accept(accept(session_id, r), RemoteKey)) :
            r \in retained \cup { << >>, ForeignNonce } }
        \cup { EnvSessionAccept(accept(session_id, r)) : r \in retained }
        \cup { EnvSessionAccept(sign_session_accept(accept(<< "other" >>, r), RemoteKey)) :
                 r \in retained }
        \cup { EnvSessionReject(session_id, "Busy"),
               EnvPong(active_id, 1, now), EnvPong(active_id, 2, now),
               EnvEmpty, EnvUndecodable }

Outstanding(x) == DOMAIN app[x].pending_outbound_control_requests

ControlResponse(x, peer) ==
    /\ Running(x)
    /\ \E request_id \in Outstanding(x) :
       \E env \in Responses(app[x], peer, net.clock) :
         Commit(x, handle_control_response(NodeOf(x), peer, request_id, env, net.clock),
                Event("ControlResponse", x, peer)
                    @@ [ env |-> env, request_id |-> request_id ])

OutboundFailure(x, peer) ==
    /\ Running(x)
    /\ \E request_id \in Outstanding(x) :
         Commit(x, handle_outbound_failure(NodeOf(x), peer, request_id),
                Event("OutboundFailure", x, peer) @@ [ request_id |-> request_id ])

\* The interval timer fires: time has passed, retries and keepalives run.
Tick(x) ==
    /\ Running(x)
    /\ net.clock < MaxEngineTicks * TickStepMs
    /\ \E now \in { net.clock + TickStepMs } :
       \E n \in { handle_tick(NodeOf(x), now, random_nonce(NodeOf(x))) } :
           /\ n.swarm.next_request_id <= MaxRequestIds + 1
           /\ app' = [ app EXCEPT ![x] = n.app ]
           /\ net' = [ net EXCEPT !.clock = now, !.swarm[x] = n.swarm ]
           /\ io' = [ Event("Tick", x, Remote) EXCEPT !.before = app[x] ]
           /\ UNCHANGED <<nonce_cache, trusted_peers, machine, hist>>

EngineNext ==
    \/ ConnectionEstablished(LocalKey, Remote)
    \/ ConnectionClosed(LocalKey, Remote)
    \/ ControlRequest(LocalKey, Remote)
    \/ ControlResponse(LocalKey, Remote)
    \/ OutboundFailure(LocalKey, Remote)
    \/ Tick(LocalKey)

EngineSpec == EngineInit /\ [][EngineNext]_vars


(***************************************************************************)
(* Accepting a SessionAccept                                               *)
(***************************************************************************)
AcceptHandled == io.op = "ControlResponse" /\ io.env.kind = "SessionAccept"

\* The handler that just ran recorded an active session for io.peer.
SessionRecorded == app[io.node].active_sessions # io.before.active_sessions

RetainedNonces(pending) ==
    { pending.request_nonces[i] : i \in 1 .. Len(pending.request_nonces) }

\* C14: the engine records an active session from a SessionAccept response
\* only if, when the response is handled, the peer has a pending outbound
\* session and the accept's request_nonce is nonempty and is one of the
\* request nonces that pending session retains.
C14_AcceptBoundToPendingNonce ==
    AcceptHandled /\ SessionRecorded =>
        /\ io.peer \in DOMAIN io.before.pending_outbound_sessions
        /\ Len(io.env.accept.request_nonce) # 0
        /\ io.env.accept.request_nonce
               \in RetainedNonces(io.before.pending_outbound_sessions[io.peer])

\* After a retry, the accept that answers the first attempt is taken.
C14_Witness ==
    /\ AcceptHandled
    /\ SessionRecorded
    /\ io.peer \in DOMAIN io.before.pending_outbound_sessions
    /\ Len(io.before.pending_outbound_sessions[io.peer].request_nonces) = 2
    /\ io.env.accept.request_nonce
           = io.before.pending_outbound_sessions[io.peer].request_nonces[1]
    /\ io.peer \notin DOMAIN app[io.node].pending_outbound_sessions


(***************************************************************************)
(* One pending session and one awaited Ping per peer                       *)
(***************************************************************************)
\* What the handler that just ran on io.node sent.
Sent == { net.swarm[io.node].sent[i] : i \in 1 .. Len(net.swarm[io.node].sent) }
SentRequests(kind) == { s \in Sent : s.op = "request" /\ s.env.kind = kind }

HadPending == io.peer \in DOMAIN io.before.pending_outbound_sessions

\* The keepalive state of io.peer before the handler, if a Pong was awaited.
WasAwaiting ==
    /\ io.peer \in DOMAIN io.before.control_keepalive
    /\ IsSome(io.before.control_keepalive[io.peer].awaiting_seq)

AwaitExpired ==
    net.clock - Unwrap(io.before.control_keepalive[io.peer].awaiting_since_unix_ms)
        >= io.before.control_keepalive_timeout_ms

\* C15: per peer there is at most one pending outbound session and at most
\* one awaited keepalive Ping.  A handler sends at most one SessionRequest
\* and one Ping; with a pending record in place a connection event sends no
\* SessionRequest and leaves the record alone, and any SessionRequest sent
\* is a retry of the pending session (same session id); a Ping is sent only
\* if no Pong was awaited or the wait had just timed out and was cleared, and
\* the Ping sent is then the one awaited.
C15_OnePendingOneAwaited ==
    io.op # "none" =>
        /\ Cardinality(SentRequests("SessionRequest")) <= 1
        /\ Cardinality(SentRequests("Ping")) <= 1
        /\ HadPending =>
             /\ io.op = "ConnectionEstablished" =>
                  /\ SentRequests("SessionRequest") = {}
                  /\ app[io.node].pending_outbound_sessions
                         = io.before.pending_outbound_sessions
             /\ \A s \in SentRequests("SessionRequest") :
                  /\ io.op = "Tick"
                  /\ s.env.req.session_id
                         = io.before.pending_outbound_sessions[io.peer].session_id
        /\ \A s \in SentRequests("Ping") :
             /\ io.op = "Tick"
             /\ WasAwaiting => AwaitExpired
             /\ io.peer \in DOMAIN app[io.node].control_keepalive =>
                  app[io.node].control_keepalive[io.peer].awaiting_seq = Some(s.env.seq)

\* A tick finds the interval elapsed since the last Ping, whose Pong is still
\* awaited and not yet overdue: no Ping is sent.
C15_Witness ==
    /\ io.op = "Tick"
    /\ WasAwaiting
    /\ ~ AwaitExpired
    /\ net.clock - io.before.control_keepalive[io.peer].last_send_unix_ms
           >= io.before.control_keepalive_interval_ms
    /\ io.peer \in DOMAIN app[io.node].active_sessions
    /\ SentRequests("Ping") = {}
    /\ app[io.node].control_keepalive = io.before.control_keepalive


(***************************************************************************)
(* Inbound session requests that are turned down                           *)
(***************************************************************************)
InboundHandled ==
    /\ io.op = "ControlRequest"
    /\ io.env.kind = "SessionRequest"
    /\ io.channel.open

VersionMismatchHandled == InboundHandled /\ Major(io.env.req) # PROTOCOL_MAJOR

\* The reply of the handler that just ran is a SessionReject with this reason.
RepliedReject(reason) ==
    \E s \in Sent : /\ s.op = "response"
                    /\ s.env.kind = "SessionReject"
                    /\ s.env.reason = reason

\* The state machine of io.peer before the handler, driven with the trigger.
Driven(trigger) == apply(io.before.sessions[io.peer], trigger).machine

\* C19: an inbound SessionRequest whose version.major is not 1 is answered
\* with SessionReject{VersionMismatch} and the peer's state machine is driven
\* with the VersionMismatch trigger, so that a machine in SecureHandshake
\* ends in Failed(VersionMismatch).
C19_VersionMismatchDrivesMachine ==
    VersionMismatchHandled =>
        /\ RepliedReject("VersionMismatch")
        /\ io.peer \in DOMAIN io.before.sessions =>
             app[io.node].sessions[io.peer] = Driven("VersionMismatch")

\* A request of major version 2 reaches a node whose machine for the peer is
\* in SecureHandshake: it is rejected and the machine stays in SecureHandshake.
C19_Witness ==
    /\ VersionMismatchHandled
    /\ RepliedReject("VersionMismatch")
    /\ io.env.req.version = Some(2)
    /\ io.before.sessions[io.peer].state = St("SecureHandshake")
    /\ Driven("VersionMismatch").state = Failed("VersionMismatch")
    /\ app[io.node].sessions[io.peer].state = St("SecureHandshake")
    /\ app[io.node] = io.before



\* What verify_session_request returned to the handler that just ran.
InboundVerdict == VerifyInbound(io.before, io.peer, io.env.req, net.clock)

VerifyFailed ==
    /\ InboundHandled
    /\ Major(io.env.req) = PROTOCOL_MAJOR
    /\ ~ InboundVerdict.ok

PolicyErrors == { "InvalidTargetDeviceCode", "UntrustedPeer", "TrustedPeerMismatch" }

\* C20: when verify_session_request fails for an inbound SessionRequest the
\* engine records no active session, drives AuthFailed on the peer's state
\* machine, and replies SessionReject with reason PolicyDenied for
\* InvalidTargetDeviceCode, UntrustedPeer and TrustedPeerMismatch and reason
\* AuthFailed for every other verification error.
C20_VerifyFailureRejects ==
    VerifyFailed =>
        /\ app[io.node].active_sessions = io.before.active_sessions
        /\ app[io.node].control_keepalive = io.before.control_keepalive
        /\ io.peer \in DOMAIN io.before.sessions
        /\ app[io.node].sessions[io.peer] = Driven("AuthFailed")
        /\ Cardinality(Sent) = 1
        /\ RepliedReject(IF InboundVerdict.err \in PolicyErrors
                         THEN "PolicyDenied" ELSE "AuthFailed")

\* A request from a device code pinned to another key arrives during the
\* handshake: PolicyDenied, and the machine fails with AuthFailed.
C20_Witness ==
    /\ VerifyFailed
    /\ InboundVerdict.err = "TrustedPeerMismatch"
    /\ RepliedReject("PolicyDenied")
    /\ io.before.sessions[io.peer].state = St("SecureHandshake")
    /\ app[io.node].sessions[io.peer].state = Failed("AuthFailed")
    /\ io.peer \notin DOMAIN app[io.node].active_sessions


(***************************************************************************)
(* Failures that prevent a session                                         *)
(***************************************************************************)
\* The accept that was just handled passed every check of the handler.
AcceptTaken ==
    /\ HadPending
    /\ Len(io.env.accept.request_nonce) # 0
    /\ io.env.accept.request_nonce
           \in RetainedNonces(io.before.pending_outbound_sessions[io.peer])
    /\ VerifyAccept(io.before, io.peer, io.before.pending_outbound_sessions[io.peer],
                    io.env.accept, net.clock).ok

RejectReceived == io.op = "ControlResponse" /\ io.env.kind = "SessionReject"
AcceptRefused == AcceptHandled /\ ~ AcceptTaken
SendFailed ==
    /\ io.op = "OutboundFailure"
    /\ io.request_id \in DOMAIN io.before.pending_outbound_control_requests
    /\ io.before.pending_outbound_control_requests[io.request_id] = KindSessionRequest
RetriesExhausted ==
    /\ io.op = "Tick"
    /\ HadPending
    /\ io.peer \notin DOMAIN app[io.node].pending_outbound_sessions
InboundRejected ==
    /\ InboundHandled
    /\ \E s \in Sent : s.op = "response" /\ s.env.kind = "SessionReject"

GaveUp ==
    \/ RejectReceived
    \/ AcceptRefused
    \/ SendFailed
    \/ RetriesExhausted
    \/ InboundRejected

PeerFailed ==
    /\ io.peer \in DOMAIN app[io.node].sessions
    /\ app[io.node].sessions[io.peer].state.name = "Failed"

Settles ==
    \A p \in DOMAIN app'[LocalKey].pending_outbound_sessions :
        LET pending == app'[LocalKey].pending_outbound_sessions[p]
            left == app'[LocalKey].session_request_max_attempts - pending.attempts + 1
        IN  pending.last_send_unix_ms + left * app'[LocalKey].session_request_timeout_ms
                <= MaxEngineTicks * TickStepMs

\* Nothing at node x waits for a time: no session request is pending and no
\* session is active.  The tick branch then does the same at every time.
Quiet(x) ==
    /\ DOMAIN app[x].pending_outbound_sessions = {}
    /\ DOMAIN app[x].active_sessions = {}

\* The interval timer fires at a quiet node after the last value of the
\* clock, which is left where it is; io.late alternates from one such tick
\* to the next.
LateTick(x) ==
    /\ Running(x)
    /\ net.clock = MaxEngineTicks * TickStepMs
    /\ Quiet(x)
    /\ \E n \in { handle_tick(NodeOf(x), net.clock + TickStepMs, random_nonce(NodeOf(x))) } :
           /\ app' = [ app EXCEPT ![x] = n.app ]
           /\ net' = [ net EXCEPT !.swarm[x] = n.swarm ]
           /\ io' = [ Event("Tick", x, Remote) EXCEPT !.before = app[x] ]
                        @@ [ late |-> ~ ("late" \in DOMAIN io /\ io.late) ]
           /\ UNCHANGED <<nonce_cache, trusted_peers, machine, hist>>

\* The requests that the next tick of node x sends have ids left.
IdsLeft(x) ==
    \/ net.clock = MaxEngineTicks * TickStepMs
    \/ handle_tick(NodeOf(x), net.clock + TickStepMs,
                   random_nonce(NodeOf(x))).swarm.next_request_id <= MaxRequestIds + 1

\* The node keeps running: no reply finds its channel closed, and its timer
\* is never held up for want of a request id.
TimerNext ==
    /\ EngineNext \/ LateTick(LocalKey)
    /\ Settles
    /\ Running(LocalKey)'
    /\ IdsLeft(LocalKey)'

TimerSpec ==
    /\ EngineInit
    /\ [][TimerNext]_vars
    /\ WF_vars(Tick(LocalKey))
    /\ WF_vars(LateTick(LocalKey))

\* The states whose entry arms a timer (Transition.arm_timer).
TimedStates ==
    { "Discovering", "DialingDirect", "HolePunching", "RelayDialing",
      "SecureHandshake", "Reconnecting" }

InState(name) ==
    /\ Remote \in DOMAIN app[LocalKey].sessions
    /\ app[LocalKey].sessions[Remote].state.name = name

\* C17: every dial phase and the handshake are bounded in the running
\* engine: a per-peer state machine that is in Discovering, DialingDirect,
\* HolePunching, RelayDialing, SecureHandshake or Reconnecting eventually
\* leaves that state, the engine firing the timer the transition armed.
C17_TimedStatesAreLeft ==
    \A name \in TimedStates : InState(name) ~> ~ InState(name)

\* A tick finds the machine in Reconnecting and fires nothing: the App is
\* as it was.
C17_Witness ==
    /\ io.op = "Tick"
    /\ Remote \in DOMAIN io.before.sessions
    /\ io.before.sessions[Remote].state = St("Reconnecting")
    /\ InState("Reconnecting")
    /\ app[LocalKey] = io.before

\* Once in Reconnecting the machine of a peer stays there, whatever happens.
ReconnectingIsNeverLeft ==
    [][InState("Reconnecting") => InState("Reconnecting")']_vars


(***************************************************************************)
(* Two nodes: the node of LocalKey dials the node of RemoteKey.  Both are  *)
(* fresh and run with --trust-on-first-use; what a handler sends travels   *)
(* on net.wire to the other node.                                          *)
(***************************************************************************)
Nodes == { LocalKey, RemoteKey }
Other(x) == LocalKey + RemoteKey - x

\* random_nonce(16) at node x: the draws of the two nodes never coincide, and
\* neither do the draws for a request and for an accept.
request_nonce_of(x) == Nonce(16 * x + net.swarm[x].next_request_id, 16)
accept_nonce_of(x, request_id) == Nonce(16 * x + 8 + request_id, 16)

PairInit ==
    /\ \E responder_auto_request \in BOOLEAN :
          app = [ x \in Nodes |->
                    EngineApp(x, x = LocalKey \/ responder_auto_request,
                              TrustedPeers_default, TRUE) ]
    /\ net = [ clock |-> 0,
               swarm |-> [ x \in Nodes |-> Swarm_new ],
               exited |-> [ x \in Nodes |-> FALSE ],
               wire |-> {},
               skew |-> [ x \in Nodes |-> 0 ] ]
    /\ io = IdleIO
    /\ hist = NoHist
    /\ nonce_cache = NonceReplayCache_default
    /\ trusted_peers = TrustedPeers_default
    /\ machine = ConnectionStateMachine_default

\* unix_ms() at node x: each node reads the clock of its own machine.
unix_ms_at(x) == net.clock + net.skew[x]

\* What the handler of node x handed to the swarm, as messages in flight.
Outbox(x, n) == { [ from |-> x, msg |-> n.swarm.sent[i] ] : i \in 1 .. Len(n.swarm.sent) }

\* The handler of node x took it to n, consuming the messages `taken` and
\* advancing the clock to `now`.
PairCommit(x, n, event, taken, now) ==
    /\ app' = [ app EXCEPT ![x] = n.app ]
    /\ net' = [ net EXCEPT !.clock = now, !.swarm[x] = n.swarm, !.exited[x] = n.exited,
                           !.wire = (@ \ taken) \cup Outbox(x, n) ]
    /\ io' = [ event EXCEPT !.before = app[x] ]
    /\ UNCHANGED <<nonce_cache, trusted_peers, machine, hist>>

\* The swarm of node x reports the connection to the other node.
PairConnected(x) ==
    /\ Running(x)
    /\ KeyPeerId(Other(x)) \notin net.swarm[x].connected_peers
    /\ PairCommit(x, handle_connection_established(NodeOf(x), KeyPeerId(Other(x)),
                                                    unix_ms_at(x), request_nonce_of(x)),
                  Event("ConnectionEstablished", x, KeyPeerId(Other(x))), {}, net.clock)

\* A request in flight reaches node x, over the connection x knows of.
PairRequest(x) ==
    /\ Running(x)
    /\ \E m \in net.wire :
         /\ m.msg.op = "request"
         /\ m.msg.peer = KeyPeerId(x)
         /\ KeyPeerId(m.from) \in net.swarm[x].connected_peers
         /\ LET channel == [ peer |-> KeyPeerId(m.from), id |-> m.msg.id, open |-> TRUE ]
            IN  PairCommit(x, handle_control_request(NodeOf(x), KeyPeerId(m.from),
                                                     m.msg.env, channel, unix_ms_at(x),
                                                     accept_nonce_of(x, m.msg.id)),
                           Event("ControlRequest", x, KeyPeerId(m.from))
                               @@ [ env |-> m.msg.env, channel |-> channel ],
                           {m}, net.clock)

\* A response in flight reaches node x, which sent the request.
PairResponse(x) ==
    /\ Running(x)
    /\ \E m \in net.wire :
         /\ m.msg.op = "response"
         /\ m.msg.peer = KeyPeerId(x)
         /\ m.msg.id \in Outstanding(x)
         /\ PairCommit(x, handle_control_response(NodeOf(x), KeyPeerId(m.from), m.msg.id,
                                                  m.msg.env, unix_ms_at(x)),
                       Event("ControlResponse", x, KeyPeerId(m.from))
                           @@ [ env |-> m.msg.env, request_id |-> m.msg.id ],
                       {m}, net.clock)

\* The interval timer of node x fires.  Messages travel in far less than the
\* clock's step: none is in flight when the clock moves.
PairTick(x) ==
    /\ Running(x)
    /\ net.wire = {}
    /\ net.clock < MaxEngineTicks * TickStepMs
    /\ \E now \in { net.clock + TickStepMs } :
       \E n \in { handle_tick(NodeOf(x), now + net.skew[x], request_nonce_of(x)) } :
           /\ n.swarm.next_request_id <= MaxRequestIds + 1
           /\ PairCommit(x, n, Event("Tick", x, KeyPeerId(Other(x))), {}, now)

PairNext ==
    \/ \E x \in Nodes : PairConnected(x)
    \/ \E x \in Nodes : PairRequest(x)
    \/ \E x \in Nodes : PairResponse(x)
    \/ \E x \in Nodes : PairTick(x)

PairSpec == PairInit /\ [][PairNext]_vars

\* The dialling node has just verified the responder's accept and recorded
\* the session.
InitiatorAccepted ==
    /\ io.op = "ControlResponse"
    /\ io.node = LocalKey
    /\ io.env.kind = "SessionAccept"
    /\ SessionRecorded

\* Node x: the machine of the other node is Active, a session with it is
\* active, and the trust store holds one record.
Established(x) ==
    LET peer == KeyPeerId(Other(x))
    IN  /\ peer \in DOMAIN app[x].sessions
        /\ app[x].sessions[peer].state = St("Active")
        /\ peer \in DOMAIN app[x].active_sessions
        /\ Cardinality(DOMAIN app[x].trusted_peers) = 1

Rejected == Returned /\ ~ io.ok

\* C21: a SessionRequest that verify_session_request rejects, for whatever
\* reason (a replayed nonce, another key under a pinned device code, ...),
\* leaves the trust store as it was: no record inserted, no last_seen moved.
C21_RejectionLeavesTrustStore ==
    Rejected => trusted_peers = io.before.trusted

\* Another key claims a pinned device code, at a time when an accepted
\* observation would have advanced last_seen.
C21_Witness ==
    /\ Rejected
    /\ io.err = "TrustedPeerMismatch"
    /\ io.before.trusted[ObservedDeviceCode].peer_id # ObservedPeerId
    /\ io.args.now - io.before.trusted[ObservedDeviceCode].last_seen_unix_ms
           >= LAST_SEEN_PERSIST_INTERVAL_MS
    /\ trusted_peers = io.before.trusted


(***************************************************************************)
(* KeepaliveSpec: a node with the default settings whose peer never        *)
(* answers a Ping.  The connection comes up once, a session becomes active *)
(* (the peer's request is accepted, or the peer accepts the node's), the   *)
(* interval timer ticks every TICK_INTERVAL_MS, and the transport reports  *)
(* the closure right after the node disconnects.  hist.first_ping is the   *)
(* time the first Ping of the session was sent.                            *)
(***************************************************************************)
MaxKeepaliveTicks == 20     \* ticks of the interval timer

\* unix_ms() at the first event: at least a keepalive interval after the epoch.
Uptime == 5 * TICK_INTERVAL_MS

\* The default command line (Args): request timeout 1200 ms, 3 attempts,
\* keepalive every 1000 ms, timeout 1200 ms, 3 misses.
DefaultApp(key, auto_request) ==
    App_new(key, auto_request, TrustedPeers_default, TRUE, 1200, 3, 1000, 1200, 3)

KeepaliveInit ==
    /\ \E auto_request \in BOOLEAN :
          app = [ x \in {LocalKey} |-> DefaultApp(x, auto_request) ]
    /\ net = [ clock |-> Uptime,
               swarm |-> [ x \in {LocalKey} |-> Swarm_new ],
               exited |-> [ x \in {LocalKey} |-> FALSE ] ]
    /\ io = IdleIO
    /\ hist = [ first_ping |-> None ]
    /\ nonce_cache = NonceReplayCache_default
    /\ trusted_peers = TrustedPeers_default
    /\ machine = ConnectionStateMachine_default

KeepaliveCommit(n, event, now) ==
    /\ app' = [ app EXCEPT ![LocalKey] = n.app ]
    /\ net' = [ net EXCEPT !.clock = now, !.swarm[LocalKey] = n.swarm,
                           !.exited[LocalKey] = n.exited ]
    /\ io' = [ event EXCEPT !.before = app[LocalKey] ]
    /\ UNCHANGED <<nonce_cache, trusted_peers, machine>>

SessionActive == Remote \in DOMAIN app[LocalKey].active_sessions

KeepaliveConnected ==
    /\ Remote \notin DOMAIN app[LocalKey].sessions
    /\ KeepaliveCommit(handle_connection_established(NodeOf(LocalKey), Remote, net.clock,
                                                     random_nonce(NodeOf(LocalKey))),
                       Event("ConnectionEstablished", LocalKey, Remote), net.clock)
    /\ UNCHANGED hist

\* The peer's signed SessionRequest arrives, once.
KeepaliveRequested ==
    /\ Remote \in net.swarm[LocalKey].connected_peers
    /\ app[LocalKey].nonce_cache = NonceReplayCache_default
    /\ LET req == sign_session_request(
                      WithVersion(SessionRequest(SessionIdAt(0), Some(Identity(RemoteKey)),
                                                 PeerId_to_string(Local), Nonce(3, 16),
                                                 net.clock),
                                  Some(PROTOCOL_MAJOR)), RemoteKey)
           channel == [ peer |-> Remote, id |-> 0, open |-> TRUE ]
       IN  KeepaliveCommit(handle_control_request(NodeOf(LocalKey), Remote,
                                                  EnvSessionRequest(req), channel,
                                                  net.clock, Nonce(4, 16)),
                           Event("ControlRequest", LocalKey, Remote)
                               @@ [ env |-> EnvSessionRequest(req), channel |-> channel ],
                           net.clock)
    /\ UNCHANGED hist

\* The peer's SessionAccept for one of the attempts of the node's pending
\* SessionRequest arrives.
KeepaliveAccepted ==
    /\ Remote \in DOMAIN app[LocalKey].pending_outbound_sessions
    /\ \E request_id \in Outstanding(LocalKey) :
       \E attempt \in 1 .. Len(app[LocalKey].pending_outbound_sessions[Remote].request_nonces) :
         /\ app[LocalKey].pending_outbound_control_requests[request_id].kind
                = "SessionRequest"
         /\ LET pending == app[LocalKey].pending_outbound_sessions[Remote]
                accept == sign_session_accept(
                              SessionAccept(pending.session_id, Some(Identity(RemoteKey)),
                                            Nonce(5, 16), net.clock,
                                            pending.request_nonces[attempt]),
                              RemoteKey)
            IN  KeepaliveCommit(handle_control_response(NodeOf(LocalKey), Remote, request_id,
                                                        EnvSessionAccept(accept), net.clock),
                                Event("ControlResponse", LocalKey, Remote)
                                    @@ [ env |-> EnvSessionAccept(accept),
                                         request_id |-> request_id ],
                                net.clock)
    /\ UNCHANGED hist

KeepaliveTick ==
    /\ net.clock < Uptime + MaxKeepaliveTicks * TICK_INTERVAL_MS
    /\ \E now \in { net.clock + TICK_INTERVAL_MS } :
       \E n \in { handle_tick(NodeOf(LocalKey), now, random_nonce(NodeOf(LocalKey))) } :
           /\ KeepaliveCommit(n, Event("Tick", LocalKey, Remote), now)
           /\ hist' = IF /\ ~ IsSome(hist.first_ping)
                         /\ \E i \in 1 .. Len(n.swarm.sent) :
                              /\ n.swarm.sent[i].op = "request"
                              /\ n.swarm.sent[i].env.kind = "Ping"
                      THEN [ hist EXCEPT !.first_ping = Some(now) ]
                      ELSE hist

\* The transport closes the connection the node has just dropped.
KeepaliveClosed ==
    /\ \E i \in 1 .. Len(net.swarm[LocalKey].sent) :
         net.swarm[LocalKey].sent[i] = [ op |-> "disconnect", peer |-> Remote ]
    /\ KeepaliveCommit(handle_connection_closed(NodeOf(LocalKey), Remote),
                       Event("ConnectionClosed", LocalKey, Remote), net.clock)
    /\ UNCHANGED hist

KeepaliveNext ==
    \/ KeepaliveConnected
    \/ KeepaliveRequested
    \/ KeepaliveAccepted
    \/ KeepaliveTick
    \/ KeepaliveClosed

KeepaliveSpec == KeepaliveInit /\ [][KeepaliveNext]_vars

\* Time since the first Ping of the session was sent.
Unanswered == net.clock - Unwrap(hist.first_ping)

Disconnected ==
    \E i \in 1 .. Len(net.swarm[LocalKey].sent) :
        net.swarm[LocalKey].sent[i] = [ op |-> "disconnect", peer |-> Remote ]

\* The tick that finds the third miss.
KeepaliveLost ==
    /\ io.op = "Tick"
    /\ Remote \in DOMAIN io.before.active_sessions
    /\ ~ SessionActive

\* C22: default keepalive settings, no Pong ever arrives on an active
\* session: the engine counts one miss per 1200 ms of waiting; at the third,
\* 3600 ms after the first unanswered Ping was sent and not before, it
\* clears the active session and disconnects the transport; the closure that
\* follows drives PathLost, and the machine goes from Active to Reconnecting
\* with a backoff of 200 ms armed.
C22_ThreeMissesDisconnect ==
    /\ (SessionActive /\ IsSome(hist.first_ping)) =>
          /\ Unanswered < 3 * 1200
          /\ app[LocalKey].control_keepalive[Remote].consecutive_misses
                 = Unanswered \div 1200
          /\ ~ Disconnected
    /\ KeepaliveLost =>
          /\ Unanswered = 3 * 1200
          /\ Disconnected
          /\ app[LocalKey].sessions[Remote].state = St("Active")
    /\ io.op = "ConnectionClosed" =>
          LET lost == apply(io.before.sessions[Remote], "PathLost")
          IN  /\ io.before.sessions[Remote].state = St("Active")
              /\ lost.result.arm_timer = Timer("ReconnectBackoff", 200)
              /\ app[LocalKey].sessions[Remote] = lost.machine
              /\ app[LocalKey].sessions[Remote].state = St("Reconnecting")

\* The closure after the third miss has been handled.
C22_Witness ==
    /\ io.op = "ConnectionClosed"
    /\ Unanswered = 3 * 1200
    /\ app[LocalKey].sessions[Remote].state = St("Reconnecting")
    /\ app[LocalKey].sessions[Remote].reconnect_elapsed_ms = 200
    /\ ~ SessionActive



\* C23: UserHangup moves the machine to Closed and arms no timer from each of
\* Discovering, DialingDirect, HolePunching, RelayDialing, SecureHandshake,
\* Active and Reconnecting; every trigger applied in Closed is an
\* InvalidTransition that leaves the machine as it was; a Failed state is
\* left only by UserRetry, and then for Idle.
C23_HangupClosesAndClosedIsTerminal ==
    /\ \A s \in { "Discovering", "DialingDirect", "HolePunching", "RelayDialing",
                  "SecureHandshake", "Active", "Reconnecting" } :
           Row(s, "UserHangup", St("Closed"), None)
    /\ (Applied /\ io.before.state = St("Closed")) =>
           /\ ~ io.result.ok
           /\ io.result.from = St("Closed")
           /\ io.result.trigger = io.trigger
           /\ machine = io.before
    /\ (Applied /\ io.before.state.name = "Failed") =>
           IF io.trigger = "UserRetry"
           THEN Moved(St("Idle"), None)
           ELSE ~ io.result.ok /\ machine.state = io.before.state
    /\ (io.op = "register_backoff_wait" /\ io.before.state.name \in { "Failed", "Closed" }) =>
           machine.state = io.before.state

\* A reconnecting machine hung up.
C23_Witness ==
    /\ AppliedIn("Reconnecting", "UserHangup")
    /\ io.before.reconnect_attempts > 0
    /\ machine.state = St("Closed")
    /\ io.result.arm_timer = None



(***************************************************************************)
(* OrderSpec: requests in which every field a check reads is either good   *)
(* or bad independently of the others, so that one request can fail        *)
(* several checks at once.                                                 *)
(***************************************************************************)
BlankCode == << " ", "\t" >>
OtherCode == << "X" >>
ShortNonce == Nonce(170, MIN_NONCE_BYTES - 1)
OrderNow == DEFAULT_REPLAY_RETENTION_MS + DEFAULT_ALLOWED_SKEW_MS

OrderFroms ==
    { None } \cup
    { Some(DeviceIdentity(pb, kb, dc)) :
        pb \in { PeerId_to_bytes(KeyPeerId(k)) : k \in Keys } \cup { << 9 >> },
        kb \in { encode_protobuf(k) : k \in Keys } \cup { << 255 >> },
        dc \in { DeviceA, BlankCode } }

OrderArgs ==
    { CallArgs(MakeRequest(from, target, nonce, unix_ms, signer), tp,
               Some(LocalCode), OrderNow, DEFAULT_ALLOWED_SKEW_MS, tofu) :
        from \in OrderFroms, target \in { LocalCode, OtherCode },
        nonce \in { << >>, ShortNonce, NonceA, NonceB },
        unix_ms \in { OrderNow, OrderNow - DEFAULT_ALLOWED_SKEW_MS - 1 },
        signer \in 0 .. NumKeys, tp \in Transports, tofu \in BOOLEAN }

OrderNext ==
    \/ \E args \in OrderArgs : Receive(args)
    \/ Verify
    \/ Reply

OrderSpec == AuthInit /\ [][OrderNext]_vars

\* The checks a returned call's request fails, each judged on its own from
\* the arguments and the state before the call; a check that cannot be made
\* at all (no sender to read, no key to verify with) does not count here.
FailedChecks ==
    LET request == io.args.request
        has_from == IsSome(request.from)
        from == Unwrap(request.from)
        key == try_decode_protobuf(from.identity_pubkey)
        has_key == has_from /\ IsSome(key)
        claimed == PeerId_from_bytes(from.peer_id)
        tp == io.args.transport_peer_id
    IN  [ MissingSenderIdentity |-> ~ has_from,
          MissingDeviceCode |-> has_from /\ TrimIsEmpty(from.device_code),
          InvalidTargetDeviceCode |->
              request.target_device_code # Unwrap(io.args.expected_target),
          MissingNonce |-> Len(request.nonce) = 0,
          NonceTooShort |-> Len(request.nonce) < 12,
          TimestampSkew |-> Abs(io.args.now - request.unix_ms) > io.args.skew,
          ReplayDetected |->
              /\ request.nonce \in DOMAIN io.before.cache.seen
              /\ io.args.now - io.before.cache.seen[request.nonce]
                     <= io.before.cache.retention_ms,
          InvalidSenderPublicKey |-> has_from /\ ~ IsSome(key),
          InvalidSignature |->
              has_key /\ ~ PublicKey_verify(Unwrap(key),
                                            canonical_session_request_payload(request),
                                            request.signature),
          InvalidSenderPeerId |-> has_from /\ ~ IsSome(claimed),
          PeerIdMismatch |->
              has_key /\ IsSome(claimed)
                  /\ Unwrap(claimed) # PeerId_from_public_key(Unwrap(key)),
          TransportPeerIdMismatch |->
              has_key /\ IsSome(tp)
                  /\ Unwrap(tp) # PeerId_from_public_key(Unwrap(key)) ]

CheckOrder ==
    << "MissingSenderIdentity", "MissingDeviceCode", "InvalidTargetDeviceCode",
       "MissingNonce", "NonceTooShort", "TimestampSkew", "ReplayDetected",
       "InvalidSenderPublicKey", "InvalidSignature", "InvalidSenderPeerId",
       "PeerIdMismatch", "TransportPeerIdMismatch" >>

Failing == { i \in 1 .. Len(CheckOrder) : FailedChecks[CheckOrder[i]] }

\* C24: verify_session_request reports the error of the earliest check, in
\* the specified order, that the request fails, however many later checks it
\* fails as well; only a request that passes all of them reaches the
\* trust-store decision (accepted, UntrustedPeer or TrustedPeerMismatch).
C24_FirstFailingCheckIsReported ==
    Returned =>
        IF Failing # {}
        THEN /\ ~ io.ok
             /\ io.err = CheckOrder[CHOOSE i \in Failing : \A j \in Failing : i <= j]
        ELSE io.ok \/ io.err \in { "UntrustedPeer", "TrustedPeerMismatch" }

\* A replayed request that is also stale, badly signed, from an undecodable
\* peer id and over the wrong transport.
C24_Witness ==
    /\ Returned
    /\ { "TimestampSkew", "ReplayDetected", "InvalidSignature", "InvalidSenderPeerId",
         "TransportPeerIdMismatch" } \subseteq { CheckOrder[i] : i \in Failing }
    /\ io.err = "TimestampSkew"



(***************************************************************************)
(* SkewSpec: the timestamp check of verify_session_request on its own,     *)
(* over the whole range of its signed operands.  The operands are i64 in   *)
(* the source; here they are IntBits wide, two's complement.  A build with *)
(* overflow checks (the dev profile) panics where the arithmetic leaves    *)
(* the range; one without (the release profile) wraps.                     *)
(***************************************************************************)
IntBits == 6

IntMin == 0 - 2 ^ (IntBits - 1)
IntMax == 2 ^ (IntBits - 1) - 1
IntRange == IntMin .. IntMax

\* The value a result takes in IntBits bits.
Wrapped(v) == ((v - IntMin) % (2 ^ IntBits)) + IntMin

\* a - b and v.abs() as the build computes them: [panic, value].
int_sub(a, b, overflow_checks) ==
    [ panic |-> overflow_checks /\ (a - b) \notin IntRange, value |-> Wrapped(a - b) ]

int_abs(v, overflow_checks) ==
    [ panic |-> overflow_checks /\ v = IntMin,
      value |-> IF v < 0 THEN Wrapped(0 - v) ELSE v ]

\* if (now_unix_ms - request.unix_ms).abs() > allowed_skew_ms { return Err(TimestampSkew) }
\* SkewExceeded above is this check where now - unix_ms stays in range.
timestamp_skew_check(now_unix_ms, unix_ms, allowed_skew_ms, overflow_checks) ==
    LET difference == int_sub(now_unix_ms, unix_ms, overflow_checks)
        distance == int_abs(difference.value, overflow_checks)
    IN  IF difference.panic \/ distance.panic THEN "panic"
        ELSE IF distance.value > allowed_skew_ms THEN "TimestampSkew"
        ELSE "pass"

SkewArgs == { 0, 5, IntMax }

SkewInit ==
    /\ \E now_unix_ms \in IntRange, unix_ms \in IntRange, allowed_skew_ms \in SkewArgs :
          io = [ op |-> "skew_check", phase |-> "call", now |-> now_unix_ms,
                 unix_ms |-> unix_ms, skew |-> allowed_skew_ms ]
    /\ nonce_cache = NonceReplayCache_default
    /\ trusted_peers = TrustedPeers_default
    /\ machine = ConnectionStateMachine_default
    /\ app = NoApp
    /\ net = NoNet
    /\ hist = NoHist

SkewCheck(overflow_checks) ==
    /\ io.op = "skew_check" /\ io.phase = "call"
    /\ io' = [ io EXCEPT !.phase = "ret" ]
                 @@ [ overflow_checks |-> overflow_checks,
                      outcome |-> timestamp_skew_check(io.now, io.unix_ms, io.skew,
                                                       overflow_checks) ]
    /\ UNCHANGED <<nonce_cache, trusted_peers, machine, hist, app, net>>

SkewNext == \E overflow_checks \in BOOLEAN : SkewCheck(overflow_checks)

SkewSpec == SkewInit /\ [][SkewNext]_vars

SkewChecked == io.op = "skew_check" /\ io.phase = "ret"

\* C25 (as claimed): for every pair of signed values now and msg.unix_ms the
\* skew check passes exactly when the mathematical |now - msg.unix_ms| is at
\* most skew, and it never overflows, wraps or panics.
C25_SkewCheckIsExact ==
    SkewChecked =>
        /\ io.outcome # "panic"
        /\ io.outcome = "pass" <=> Abs(io.now - io.unix_ms) <= io.skew

\* Without overflow checks, a timestamp half the range away passes.
C25_Witness ==
    /\ SkewChecked
    /\ ~ io.overflow_checks
    /\ io.now - io.unix_ms = 2 ^ (IntBits - 1)
    /\ io.skew = 5
    /\ io.outcome = "pass"



\* The pending outbound session of io.peer before and after the handler.
PendingBefore == io.before.pending_outbound_sessions[io.peer]
PendingAfter == app[io.node].pending_outbound_sessions[io.peer]
StillPending == io.peer \in DOMAIN app[io.node].pending_outbound_sessions

\* The pending session's last send is at least the timeout old at this tick.
RetryDue ==
    /\ io.op = "Tick"
    /\ HadPending
    /\ net.clock - PendingBefore.last_send_unix_ms >= io.before.session_request_timeout_ms

\* C26: on a tick, a pending outbound session whose last send is at least
\* session_request_timeout_ms old is resent under the same session_id with a
\* fresh nonce and attempts + 1 when attempts < max_attempts, and otherwise
\* it is removed and AuthFailed is driven; a pending session that is not due
\* is left alone.  So attempts, the number of SessionRequests sent for a
\* pending session, never exceeds max_attempts.
C26_RetryUntilMaxAttempts ==
    /\ RetryDue /\ PendingBefore.attempts < io.before.session_request_max_attempts =>
          /\ StillPending
          /\ PendingAfter.session_id = PendingBefore.session_id
          /\ PendingAfter.attempts = PendingBefore.attempts + 1
          /\ PendingAfter.last_send_unix_ms = net.clock
          /\ \E s \in SentRequests("SessionRequest") :
                /\ SentRequests("SessionRequest") = {s}
                /\ s.peer = io.peer
                /\ s.env.req.session_id = PendingBefore.session_id
                /\ s.env.req.nonce \notin RetainedNonces(PendingBefore)
                /\ s.env.req.nonce = PendingAfter.request_nonces[Len(PendingAfter.request_nonces)]
    /\ RetryDue /\ ~ (PendingBefore.attempts < io.before.session_request_max_attempts) =>
          /\ ~ StillPending
          /\ SentRequests("SessionRequest") = {}
          /\ app[io.node].sessions[io.peer] = Driven("AuthFailed")
    /\ io.op = "Tick" /\ HadPending /\ ~ RetryDue =>
          /\ StillPending
          /\ PendingAfter = PendingBefore
          /\ SentRequests("SessionRequest") = {}
    /\ \A x \in DOMAIN app : \A p \in DOMAIN app[x].pending_outbound_sessions :
          /\ app[x].pending_outbound_sessions[p].attempts >= 1
          /\ app[x].pending_outbound_sessions[p].attempts <= app[x].session_request_max_attempts

\* The tick that finds the last attempt unanswered.
C26_Witness ==
    /\ RetryDue
    /\ PendingBefore.attempts = io.before.session_request_max_attempts
    /\ Len(PendingBefore.request_nonces) = io.before.session_request_max_attempts
    /\ io.before.sessions[io.peer].state = St("SecureHandshake")
    /\ app[io.node].sessions[io.peer].state = Failed("AuthFailed")
    /\ ~ StillPending



\* C27: while a pending outbound session exists, a valid SessionAccept bound
\* to the nonce of any of its attempts (the first, an intermediate or the
\* latest, whichever request it answers) is accepted: the session becomes
\* the peer's active session, the machine goes to Active, the pending record
\* is consumed.  Every attempt's nonce is still retained when it arrives.
C27_AnyAttemptMayBeAccepted ==
    /\ \A x \in DOMAIN app : \A p \in DOMAIN app[x].pending_outbound_sessions :
          Len(app[x].pending_outbound_sessions[p].request_nonces)
              = app[x].pending_outbound_sessions[p].attempts
    /\ (AcceptHandled /\ AcceptTaken) =>
          /\ io.peer \in DOMAIN app[io.node].active_sessions
          /\ app[io.node].active_sessions[io.peer] = io.env.accept.session_id
          /\ io.env.accept.session_id = PendingBefore.session_id
          /\ app[io.node].sessions[io.peer] = Driven("HandshakeOk")
          /\ ~ StillPending

\* Three requests sent; the accept that answers the second arrives on the
\* first request's id.
C27_Witness ==
    /\ AcceptHandled
    /\ AcceptTaken
    /\ PendingBefore.attempts = 3
    /\ io.env.accept.request_nonce = PendingBefore.request_nonces[2]
    /\ io.request_id = 1
    /\ app[io.node].active_sessions[io.peer] = PendingBefore.session_id
    /\ app[io.node].sessions[io.peer].state = St("Active")



\* A SessionAccept that answers nothing the node retains: no pending session
\* for the peer, or a request_nonce that is empty or not a retained one.
AcceptUnbound ==
    /\ AcceptHandled
    /\ \/ ~ HadPending
       \/ Len(io.env.accept.request_nonce) = 0
       \/ io.env.accept.request_nonce \notin RetainedNonces(PendingBefore)

\* C28: a SessionAccept that arrives with no pending outbound session for
\* the peer, or with an empty or unmatched request_nonce, creates no active
\* session: nothing is sent or stored for it, no pending record remains,
\* AuthFailed is applied to the peer's machine, and an active session the
\* peer already has, with its keepalive state and its machine, stays as it
\* was.
C28_UnboundAcceptIsDropped ==
    AcceptUnbound =>
        /\ app[io.node].active_sessions = io.before.active_sessions
        /\ app[io.node].control_keepalive = io.before.control_keepalive
        /\ ~ StillPending
        /\ io.peer \in DOMAIN io.before.sessions
        /\ app[io.node].sessions = [ io.before.sessions EXCEPT ![io.peer] = Driven("AuthFailed") ]
        /\ io.peer \in DOMAIN io.before.active_sessions
              => app[io.node].sessions = io.before.sessions
        /\ app[io.node].nonce_cache = io.before.nonce_cache
        /\ app[io.node].trusted_peers = io.before.trusted_peers
        /\ Sent = {}

\* An accept nobody asked for, in answer to a keepalive Ping of an active session.
C28_Witness ==
    /\ AcceptUnbound
    /\ ~ HadPending
    /\ io.before.pending_outbound_control_requests[io.request_id].kind = "KeepalivePing"
    /\ io.peer \in DOMAIN app[io.node].active_sessions
    /\ app[io.node].sessions[io.peer].state = St("Active")



\* What collect_keepalive_actions returned in the tick just handled.
KeepaliveActions ==
    collect_keepalive_actions(io.before, net.clock, net.swarm[io.node].connected_peers)

\* C29 (as claimed): within one tick the timeout branch and the send branch
\* of the keepalive pass exclude each other per peer: a peer whose awaited
\* Ping times out in the tick is not sent a new Ping in it, and no peer is in
\* both the send list and the lost list of collect_keepalive_actions.
C29_TimeoutExcludesSend ==
    io.op = "Tick" =>
        /\ WasAwaiting /\ AwaitExpired /\ io.peer \in DOMAIN io.before.active_sessions
              => SentRequests("Ping") = {}
        /\ { s[1] : s \in KeepaliveActions.send_actions } \cap KeepaliveActions.lost_peers = {}

\* The tick of the third miss: the peer is pinged once more and disconnected.
C29_Witness ==
    /\ io.op = "Tick"
    /\ WasAwaiting
    /\ AwaitExpired
    /\ io.peer \in KeepaliveActions.lost_peers
    /\ io.peer \in { s[1] : s \in KeepaliveActions.send_actions }
    /\ \E s \in SentRequests("Ping") : s.peer = io.peer
    /\ Disconnected
    /\ ~ SessionActive



(***************************************************************************)
(* PongSpec: KeepaliveSpec with a peer that does answer.  A Pong may       *)
(* arrive for any keepalive Ping still tracked in                          *)
(* pending_outbound_control_requests, however late, and a Ping may fail    *)
(* to be delivered.                                                        *)
(***************************************************************************)
TrackedPings ==
    { r \in Outstanding(LocalKey) :
        app[LocalKey].pending_outbound_control_requests[r].kind = "KeepalivePing" }

\* The Pongs a peer may give to the Ping sent as request r: the honest echo,
\* one with another seq, one for another session.
PongsFor(r) ==
    LET seq == app[LocalKey].pending_outbound_control_requests[r].seq
        session_id == IF SessionActive THEN app[LocalKey].active_sessions[Remote]
                      ELSE SessionIdAt(0)
    IN  { EnvPong(session_id, seq, net.clock),
          EnvPong(session_id, seq + 1, net.clock),
          EnvPong(<< "other" >>, seq, net.clock) }

KeepalivePong ==
    \E request_id \in TrackedPings : \E env \in PongsFor(request_id) :
        /\ KeepaliveCommit(handle_control_response(NodeOf(LocalKey), Remote, request_id,
                                                   env, net.clock),
                           Event("ControlResponse", LocalKey, Remote)
                               @@ [ env |-> env, request_id |-> request_id ],
                           net.clock)
        /\ UNCHANGED hist

KeepaliveFailure ==
    \E request_id \in TrackedPings :
        /\ KeepaliveCommit(handle_outbound_failure(NodeOf(LocalKey), Remote, request_id),
                           Event("OutboundFailure", LocalKey, Remote)
                               @@ [ request_id |-> request_id ],
                           net.clock)
        /\ UNCHANGED hist

MaxPongTicks == 11    \* ticks of the interval timer with an answering peer

PongTick ==
    /\ net.clock < Uptime + MaxPongTicks * TICK_INTERVAL_MS
    /\ KeepaliveTick

PongNext ==
    \/ KeepaliveConnected
    \/ KeepaliveRequested
    \/ KeepaliveAccepted
    \/ PongTick
    \/ KeepaliveClosed
    \/ KeepalivePong
    \/ KeepaliveFailure

PongSpec == KeepaliveInit /\ [][PongNext]_vars

PongHandled == io.op = "ControlResponse" /\ io.env.kind = "Pong"

\* The keepalive state of io.peer before and after the handler.
KeepaliveBefore == io.before.control_keepalive[io.peer]
KeepaliveAfter == app[io.node].control_keepalive[io.peer]

\* The Pong was taken: the peer's keepalive state was written.
PongResolved ==
    /\ PongHandled
    /\ io.peer \in DOMAIN io.before.control_keepalive
    /\ io.peer \in DOMAIN app[io.node].control_keepalive
    /\ KeepaliveAfter # KeepaliveBefore

\* C30 (as claimed): a Pong clears the awaiting state and resets
\* consecutive_misses only if it answers a tracked keepalive request, its
\* session_id is the peer's active session id and its seq is the sequence
\* number awaited at that moment; a Pong for a Ping that has timed out or
\* failed, also when nothing is awaited, leaves the miss counter alone.
C30_PongResetsOnlyAwaited ==
    /\ PongResolved =>
          /\ io.request_id \in DOMAIN io.before.pending_outbound_control_requests
          /\ io.before.pending_outbound_control_requests[io.request_id]
                 = KindKeepalivePing(io.env.seq)
          /\ io.peer \in DOMAIN io.before.active_sessions
          /\ io.before.active_sessions[io.peer] = io.env.session_id
          /\ KeepaliveBefore.awaiting_seq = Some(io.env.seq)
    /\ (PongHandled /\ io.peer \in DOMAIN app[io.node].control_keepalive
            /\ io.peer \in DOMAIN io.before.control_keepalive
            /\ KeepaliveBefore.awaiting_seq # Some(io.env.seq)) =>
          KeepaliveAfter.consecutive_misses = KeepaliveBefore.consecutive_misses

\* Ping 1 timed out, Ping 2 failed to be sent: two misses, nothing awaited.
\* The late Pong for Ping 1 sets the counter back to 0.
C30_Witness ==
    /\ PongResolved
    /\ KeepaliveBefore.awaiting_seq = None
    /\ KeepaliveBefore.consecutive_misses = 2
    /\ KeepaliveBefore.next_seq = 2
    /\ io.env.seq = 1
    /\ KeepaliveAfter.consecutive_misses = 0



(***************************************************************************)
(* FrameSpec: the node of EngineSpec with two peers.  Connections to       *)
(* either come and go; the remote peer sends control requests; the timer   *)
(* ticks.  The third peer never gets an answer accepted, so what it has in *)
(* the node is a state machine and, with --auto-request, a pending         *)
(* outbound session.                                                       *)
(***************************************************************************)
\* The peer id of a key the node never sees a message of.
Third == [ multihash |-> << 8, 1, 18, 1, 0 >> ]
FramePeers == { Remote, Third }

FrameNext ==
    \/ \E peer \in FramePeers : ConnectionEstablished(LocalKey, peer)
    \/ \E peer \in FramePeers : ConnectionClosed(LocalKey, peer)
    \/ ControlRequest(LocalKey, Remote)
    \/ Tick(LocalKey)

FrameSpec == EngineInit /\ [][FrameNext]_vars

Disconnect == io.op = "ConnectionClosed"

\* C31: after the transport's disconnect of a peer is handled, the peer has
\* no pending outbound session, no active session and no keepalive state,
\* and PathLost has been applied to its machine (Active to Reconnecting,
\* any other state as it was); the pending, active, keepalive and machine
\* entries of every other peer, the trust store and the nonce cache are
\* unchanged.
C31_DisconnectClearsOnlyThePeer ==
    Disconnect =>
        /\ app[io.node].pending_outbound_sessions
               = Remove(io.before.pending_outbound_sessions, io.peer)
        /\ app[io.node].active_sessions = Remove(io.before.active_sessions, io.peer)
        /\ app[io.node].control_keepalive = Remove(io.before.control_keepalive, io.peer)
        /\ DOMAIN app[io.node].sessions = DOMAIN io.before.sessions
        /\ \A p \in DOMAIN io.before.sessions :
              app[io.node].sessions[p] =
                  IF p = io.peer /\ io.before.sessions[p].state = St("Active")
                  THEN apply(io.before.sessions[p], "PathLost").machine
                  ELSE io.before.sessions[p]
        /\ io.peer \in DOMAIN io.before.sessions
              /\ io.before.sessions[io.peer].state = St("Active")
              => app[io.node].sessions[io.peer].state = St("Reconnecting")
        /\ app[io.node].trusted_peers = io.before.trusted_peers
        /\ app[io.node].nonce_cache = io.before.nonce_cache

\* The remote peer, with an active session and its keepalive state, is
\* disconnected while a request to the third peer is pending.
C31_Witness ==
    /\ Disconnect
    /\ io.peer = Remote
    /\ Remote \in DOMAIN io.before.active_sessions
    /\ Remote \in DOMAIN io.before.control_keepalive
    /\ Remote \in DOMAIN io.before.pending_outbound_sessions
    /\ Third \in DOMAIN app[io.node].pending_outbound_sessions
    /\ app[io.node].sessions[Third].state = St("SecureHandshake")
    /\ app[io.node].sessions[Remote].state = St("Reconnecting")
    /\ Remote \notin DOMAIN app[io.node].control_keepalive


(***************************************************************************)
(* Device discovery: the tick starts DHT lookups for the device codes the  *)
(* node was asked to connect to, and every record a lookup finds is a      *)
(* device announcement that may lead to a dial.                            *)
(***************************************************************************)
DISCOVERY_DIAL_COOLDOWN_MS == 2500

DeviceAnnouncementV1(version, device_code, peer_id, addrs) ==
    [ version |-> version, device_code |-> device_code, peer_id |-> peer_id, addrs |-> addrs ]

\* str::parse::<PeerId>: the text of a peer id parses to that peer id.
PeerId_from_str(s) ==
    IF Len(s) = 0 \/ Head(s) # "1" THEN None
    ELSE IF decode_hex(Tail(s)) = None THEN None
    ELSE PeerId_from_bytes(Unwrap(decode_hex(Tail(s))))

\* str::parse::<Multiaddr>
Multiaddrs == { "/ip4/10.0.0.2/udp/9000/quic-v1", "/ip6/fd00::2/udp/9000/quic-v1" }
Multiaddr_parse(s) == IF s \in Multiaddrs THEN Some(s) ELSE None

\* can_attempt_discovery_dial with the cooldown test left out.
can_attempt_discovery_dial_NoCooldown(a, swarm, peer_id, now_unix_ms) ==
    IF peer_id \in swarm.connected_peers THEN FALSE
    ELSE IF peer_id \in DOMAIN a.pending_outbound_sessions THEN FALSE
    ELSE TRUE

can_attempt_discovery_dial(a, swarm, peer_id, now_unix_ms) ==
    IF peer_id \in swarm.connected_peers THEN FALSE
    ELSE IF peer_id \in DOMAIN a.pending_outbound_sessions THEN FALSE
    ELSE IF /\ peer_id \in DOMAIN a.last_peer_dial_unix_ms
            /\ now_unix_ms - a.last_peer_dial_unix_ms[peer_id] < DISCOVERY_DIAL_COOLDOWN_MS
         THEN FALSE
    ELSE TRUE

mark_discovery_dial_attempt(a, peer_id, now_unix_ms) ==
    [ a EXCEPT !.last_peer_dial_unix_ms = Insert(@, peer_id, now_unix_ms) ]

\* The loop over the announced addresses: an address that does not parse is
\* skipped, swarm.dial is called on the others in turn until the swarm takes
\* one (it refuses those in `refused`).
RECURSIVE dial_announced(_, _, _, _)
dial_announced(n, peer_id, addrs, refused) ==
    IF addrs = << >> THEN [ n |-> n, dialed_any |-> FALSE ]
    ELSE LET addr == Multiaddr_parse(Head(addrs))
         IN  IF addr = None THEN dial_announced(n, peer_id, Tail(addrs), refused)
             ELSE LET ok == Unwrap(addr) \notin refused
                      tried == [ n EXCEPT !.swarm.sent =
                                   Append(@, [ op |-> "dial", peer |-> peer_id,
                                               addr |-> Unwrap(addr), ok |-> ok ]) ]
                  IN  IF ok THEN [ n |-> tried, dialed_any |-> TRUE ]
                      ELSE dial_announced(tried, peer_id, Tail(addrs), refused)

\* payload is None when the record's bytes are not the JSON of an
\* announcement; an error return ends the node's loop.
process_discovery_record_payload(n, target_device_code, payload, now_unix_ms, refused) ==
    IF payload = None THEN [ n EXCEPT !.exited = TRUE ]
    ELSE LET announcement == Unwrap(payload)
             peer_id == PeerId_from_str(announcement.peer_id)
         IN  IF announcement.version # 1 THEN n
             ELSE IF announcement.device_code # target_device_code THEN n
             ELSE IF peer_id = None THEN [ n EXCEPT !.exited = TRUE ]
             ELSE IF Unwrap(peer_id) = n.app.local_peer_id THEN n
             ELSE IF ~ can_attempt_discovery_dial(n.app, n.swarm, Unwrap(peer_id), now_unix_ms)
                  THEN n
             ELSE LET dialed == dial_announced(n, Unwrap(peer_id), announcement.addrs, refused)
                  IN  IF dialed.dialed_any
                      THEN [ dialed.n EXCEPT !.app =
                               mark_discovery_dial_attempt(@, Unwrap(peer_id), now_unix_ms) ]
                      ELSE dialed.n

handle_get_record_query_result(n, query_id, result, now_unix_ms, refused) ==
    IF query_id \notin DOMAIN n.app.pending_device_lookup_queries THEN n
    ELSE IF result.kind = "FoundRecord"
         THEN process_discovery_record_payload(
                  n, n.app.pending_device_lookup_queries[query_id], result.value,
                  now_unix_ms, refused)
    ELSE [ n EXCEPT !.app.pending_device_lookup_queries = Remove(@, query_id) ]

RECURSIVE start_lookups(_, _, _, _)
start_lookups(n, targets, pending_targets, now_unix_ms) ==
    IF targets = {} THEN n
    ELSE LET target == CHOOSE t \in targets : TRUE
             rest == targets \ {target}
             last_lookup == IF target \in DOMAIN n.app.last_device_lookup_unix_ms
                            THEN n.app.last_device_lookup_unix_ms[target] ELSE 0
         IN  IF target \in pending_targets
             THEN start_lookups(n, rest, pending_targets, now_unix_ms)
             ELSE IF now_unix_ms - last_lookup < n.app.device_lookup_interval_ms
             THEN start_lookups(n, rest, pending_targets, now_unix_ms)
             ELSE start_lookups(
                      [ n EXCEPT !.swarm.next_query_id = @ + 1,
                                 !.swarm.sent = Append(@, [ op |-> "get_record", key |-> target ]),
                                 !.app.pending_device_lookup_queries =
                                      Insert(@, n.swarm.next_query_id, target),
                                 !.app.last_device_lookup_unix_ms =
                                      Insert(@, target, now_unix_ms) ],
                      rest, pending_targets, now_unix_ms)

maybe_start_device_code_lookups(n, now_unix_ms) ==
    IF n.app.connect_device_codes = {} THEN n
    ELSE start_lookups(n, n.app.connect_device_codes,
                       { n.app.pending_device_lookup_queries[q] :
                           q \in DOMAIN n.app.pending_device_lookup_queries },
                       now_unix_ms)

(***************************************************************************)
(* DiscoverySpec: one node started with --connect-device-code for the      *)
(* remote peer's code.  The DHT is the environment: a lookup may find any  *)
(* record, finish or fail, and the swarm may refuse any dial.              *)
(***************************************************************************)
MaxDiscoveryTicks == 4

DiscoveryStart == 3 * TickStepMs

RemoteCode == PeerId_to_string(Remote)

DiscoveryInit ==
    /\ \E auto_request \in BOOLEAN :
          app = [ x \in {LocalKey} |->
                    [ EngineApp(x, auto_request, TrustedPeers_default, TRUE)
                        EXCEPT !.connect_device_codes = { RemoteCode } ] ]
    /\ net = [ clock |-> DiscoveryStart,
               swarm |-> [ x \in {LocalKey} |-> Swarm_new ],
               exited |-> [ x \in {LocalKey} |-> FALSE ] ]
    /\ io = IdleIO
    /\ hist = [ dials |-> << >> ]
    /\ nonce_cache = NonceReplayCache_default
    /\ trusted_peers = TrustedPeers_default
    /\ machine = ConnectionStateMachine_default

\* What a lookup may bring: records of any content, the end of the lookup,
\* an error.
Announcements ==
    LET announced(version, device_code, peer_id, addrs) ==
            Some(DeviceAnnouncementV1(version, device_code, peer_id, addrs))
        one == << "/ip4/10.0.0.2/udp/9000/quic-v1" >>
    IN  { announced(1, RemoteCode, PeerId_to_string(Remote), addrs) :
            addrs \in { << >>, << "nonsense" >>, one,
                        << "nonsense", "/ip4/10.0.0.2/udp/9000/quic-v1",
                           "/ip6/fd00::2/udp/9000/quic-v1" >> } }
        \cup { announced(2, RemoteCode, PeerId_to_string(Remote), one),
               announced(1, << "other" >>, PeerId_to_string(Remote), one),
               announced(1, RemoteCode, PeerId_to_string(Local), one),
               announced(1, RemoteCode, << "?" >>, one),
               None }

GetRecordResults ==
    { [ kind |-> "FoundRecord", value |-> payload ] : payload \in Announcements }
        \cup { [ kind |-> "FinishedWithNoAdditionalRecord" ], [ kind |-> "Err" ] }

\* The accepted dials of a handler's run, added to the times of the earlier
\* ones of each peer.
NoteDials(dials, sent, now) ==
    LET taken == { sent[i].peer : i \in { j \in 1 .. Len(sent) :
                                            sent[j].op = "dial" /\ sent[j].ok } }
    IN  [ p \in (DOMAIN dials) \cup taken |->
            IF p \in taken
            THEN (IF p \in DOMAIN dials THEN dials[p] ELSE << >>) \o << now >>
            ELSE dials[p] ]

GetRecord(x) ==
    /\ Running(x)
    /\ \E query_id \in 1 .. net.swarm[x].next_query_id :
       \E result \in GetRecordResults :
       \E refused \in SUBSET Multiaddrs :
       \E n \in { handle_get_record_query_result(NodeOf(x), query_id, result,
                                                 net.clock, refused) } :
           /\ app' = [ app EXCEPT ![x] = n.app ]
           /\ net' = [ net EXCEPT !.swarm[x] = n.swarm, !.exited[x] = n.exited ]
           /\ io' = [ Event("GetRecord", x, Remote) EXCEPT !.before = app[x] ]
                       @@ [ query_id |-> query_id, result |-> result,
                            connected |-> net.swarm[x].connected_peers ]
           /\ hist' = [ hist EXCEPT !.dials = NoteDials(@, n.swarm.sent, net.clock) ]
           /\ UNCHANGED <<nonce_cache, trusted_peers, machine>>

DiscoveryTick(x) ==
    /\ Running(x)
    /\ net.clock < DiscoveryStart + MaxDiscoveryTicks * TickStepMs
    /\ \E now \in { net.clock + TickStepMs } :
       \E n \in { handle_control_keepalive_tick(
                      maybe_start_device_code_lookups(
                          handle_pending_session_timeouts(NodeOf(x), now,
                                                          random_nonce(NodeOf(x))),
                          now),
                      now) } :
           /\ n.swarm.next_request_id <= MaxRequestIds + 1
           /\ app' = [ app EXCEPT ![x] = n.app ]
           /\ net' = [ net EXCEPT !.clock = now, !.swarm[x] = n.swarm ]
           /\ io' = [ Event("Tick", x, Remote) EXCEPT !.before = app[x] ]
           /\ UNCHANGED <<nonce_cache, trusted_peers, machine, hist>>

DiscoveryNext ==
    \/ GetRecord(LocalKey)
    \/ DiscoveryTick(LocalKey)
    \/ ConnectionEstablished(LocalKey, Remote)
    \/ ConnectionClosed(LocalKey, Remote)

DiscoverySpec == DiscoveryInit /\ [][DiscoveryNext]_vars

\* The swarm.dial calls of the step just taken, and those the swarm took.
DialCalls == { s \in Sent : s.op = "dial" }
Dialed == { s \in DialCalls : s.ok }
Found == io.op = "GetRecord"

parse_peer_id(text) == PeerId_from_str(text)

RECURSIVE from_records_loop(_, _)
from_records_loop(by_device_code, records) ==
    IF records = << >> THEN [ ok |-> TRUE, err |-> "", trusted |-> by_device_code ]
    ELSE LET record == Head(records)
             corrupt == [ ok |-> FALSE, err |-> "TrustStoreCorrupt",
                          trusted |-> TrustedPeers_default ]
         IN  IF TrimIsEmpty(record.device_code) THEN corrupt
             ELSE IF parse_peer_id(record.peer_id) = None THEN corrupt
             ELSE IF decode_hex(record.identity_pubkey_hex) = None THEN corrupt
             ELSE from_records_loop(Insert(by_device_code, record.device_code, record),
                                    Tail(records))

\* Result {ok, err, trusted}.
from_records(records) == from_records_loop(<< >>, records)

\* The records a trust file may hold.
FileRecords ==
    { TrustedPeerRecord(device_code, peer_id, pubkey_hex, 0, 0) :
        device_code \in { DeviceA, << " " >>, << >> },
        peer_id \in { PeerId_to_string(KeyPeerId(k)) : k \in Keys } \cup { << "?" >> },
        pubkey_hex \in { encode_hex(encode_protobuf(k)) : k \in Keys }
                           \cup { encode_hex(<< 255 >>), << "z", "z" >>, << "a" >> } }

GoodRecord ==
    TrustedPeerRecord(LocalCode, PeerId_to_string(KeyPeerId(1)),
                      encode_hex(encode_protobuf(1)), 0, 0)

FileContents ==
    { << >> } \cup { << r >> : r \in FileRecords }
              \cup { << GoodRecord, r >> : r \in FileRecords }

\* load_trusted_peers at startup: a file that from_records rejects ends the
\* program before it serves a request.
LoadTrustedPeers ==
    /\ io.op = "none"
    /\ hist = NoHist
    /\ \E records \in FileContents :
         LET loaded == from_records(records)
         IN  /\ hist' = [ records |-> records, ok |-> loaded.ok, err |-> loaded.err ]
             /\ trusted_peers' = loaded.trusted
    /\ UNCHANGED <<nonce_cache, machine, io, app, net>>

Loaded == hist # NoHist

StoreArgs ==
    { CallArgs(MakeRequest(SignedFrom(k, pubkey, DeviceA), LocalCode, NonceA, 0, k),
               None, Some(LocalCode), 0, DEFAULT_ALLOWED_SKEW_MS, TRUE) :
        k \in Keys, pubkey \in UNION { KeyEncodings(x) : x \in Keys } }

StoreReceive ==
    /\ Loaded /\ hist.ok
    /\ \E args \in StoreArgs : Receive(args)

StoreNext ==
    \/ LoadTrustedPeers
    \/ StoreReceive
    \/ Verify
    \/ Reply

StoreSpec == AuthInit /\ [][StoreNext]_vars

\* The public key a record's hex names, if it names one.
RecordKey(record) ==
    IF decode_hex(record.identity_pubkey_hex) = None THEN None
    ELSE try_decode_protobuf(Unwrap(decode_hex(record.identity_pubkey_hex)))

WellFormedRecord(record) ==
    /\ ~ TrimIsEmpty(record.device_code)
    /\ IsSome(parse_peer_id(record.peer_id))
    /\ IsSome(RecordKey(record))
    /\ parse_peer_id(record.peer_id) = Some(PeerId_from_public_key(Unwrap(RecordKey(record))))

\* C33: every record of the trust store, loaded by from_records or inserted by
\* ensure_trusted, has a nonempty device_code, a peer_id that parses and an
\* identity_pubkey_hex that decodes to the public key the peer_id is derived
\* from; from_records rejects a list with a record that is not so with
\* TrustStoreCorrupt.
C33_StoreRecordsWellFormed ==
    /\ \A device_code \in DOMAIN trusted_peers : WellFormedRecord(trusted_peers[device_code])
    /\ Loaded =>
         /\ (\E i \in 1 .. Len(hist.records) : ~ WellFormedRecord(hist.records[i])) => ~ hist.ok
         /\ ~ hist.ok => hist.err = "TrustStoreCorrupt"

\* from_records has taken a record whose public key is another peer's.
C33_Witness ==
    /\ Loaded /\ hist.ok
    /\ \E device_code \in DOMAIN trusted_peers :
         LET record == trusted_peers[device_code]
         IN  /\ IsSome(RecordKey(record))
             /\ IsSome(parse_peer_id(record.peer_id))
             /\ parse_peer_id(record.peer_id)
                    # Some(PeerId_from_public_key(Unwrap(RecordKey(record))))


(***************************************************************************)
(* aetherlink-network: the choice of the primary candidate.                *)
(***************************************************************************)
CandidateKind == { "DirectIpv6", "DirectLan", "ServerReflexive", "Relay" }

Candidate(address, priority, kind) ==
    [ address |-> address, priority |-> priority, kind |-> kind ]

\* The key of max_by_key; u64 saturating_add of a u32 to these weights never
\* saturates.
kind_weight(kind) ==
    CASE kind = "DirectIpv6" -> 40000
      [] kind = "DirectLan" -> 30000
      [] kind = "ServerReflexive" -> 20000
      [] kind = "Relay" -> 10000

candidate_key(item) == kind_weight(item.kind) + item.priority

\* Iterator::max_by_key returns the last of the elements with the greatest
\* key.  Result {ok, err, candidate}.
select_primary_candidate(candidates) ==
    IF candidates = << >>
    THEN [ ok |-> FALSE, err |-> "EmptyCandidates", candidate |-> None ]
    ELSE LET greatest == { i \in 1 .. Len(candidates) :
                             \A j \in 1 .. Len(candidates) :
                                candidate_key(candidates[j]) <= candidate_key(candidates[i]) }
             last == CHOOSE i \in greatest : \A j \in greatest : j <= i
         IN  [ ok |-> TRUE, err |-> "", candidate |-> Some(candidates[last]) ]

MaxCandidates == 2

\* Priorities on both sides of the distance between two kind weights.
Priorities == { 0, 1, 500, 9999, 10000, 30001 }

Candidates ==
    { Candidate("addr", priority, kind) : priority \in Priorities, kind \in CandidateKind }

CandidateLists == UNION { [ 1 .. n -> Candidates ] : n \in 0 .. MaxCandidates }

PlannerCall ==
    /\ io.op = "none"
    /\ \E candidates \in CandidateLists :
         io' = [ op |-> "select_primary_candidate", phase |-> "call",
                 candidates |-> candidates ]
    /\ UNCHANGED <<nonce_cache, trusted_peers, machine, hist, app, net>>

PlannerSelect ==
    /\ io.op = "select_primary_candidate" /\ io.phase = "call"
    /\ io' = [ io EXCEPT !.phase = "ret" ]
                @@ [ result |-> select_primary_candidate(io.candidates) ]
    /\ UNCHANGED <<nonce_cache, trusted_peers, machine, hist, app, net>>

PlannerReturn ==
    /\ io.op = "select_primary_candidate" /\ io.phase = "ret"
    /\ io' = IdleIO
    /\ UNCHANGED <<nonce_cache, trusted_peers, machine, hist, app, net>>

PlannerNext ==
    \/ PlannerCall
    \/ PlannerSelect
    \/ PlannerReturn

PlannerSpec == AuthInit /\ [][PlannerNext]_vars

Selected == io.op = "select_primary_candidate" /\ io.phase = "ret"

\* The rank of a kind in the order DirectIpv6 > DirectLan > ServerReflexive > Relay.
KindRank(kind) ==
    CASE kind = "DirectIpv6" -> 4
      [] kind = "DirectLan" -> 3
      [] kind = "ServerReflexive" -> 2
      [] kind = "Relay" -> 1

\* C34: select_primary_candidate on a non-empty list returns a candidate of
\* the most preferred kind in the list (DirectIpv6 > DirectLan >
\* ServerReflexive > Relay) whatever the priorities, the priority deciding
\* only among candidates of that kind; on an empty list it returns
\* EmptyCandidates.
C34_MostPreferredKindSelected ==
    Selected =>
        IF io.candidates = << >>
        THEN ~ io.result.ok /\ io.result.err = "EmptyCandidates"
        ELSE /\ io.result.ok
             /\ \E i \in 1 .. Len(io.candidates) : io.candidates[i] = Unwrap(io.result.candidate)
             /\ \A i \in 1 .. Len(io.candidates) :
                  LET chosen == Unwrap(io.result.candidate)
                  IN  /\ KindRank(io.candidates[i].kind) <= KindRank(chosen.kind)
                      /\ io.candidates[i].kind = chosen.kind
                           => io.candidates[i].priority <= chosen.priority

\* A relay candidate is chosen over a direct IPv6 candidate.
C34_Witness ==
    /\ Selected /\ io.result.ok
    /\ Unwrap(io.result.candidate).kind = "Relay"
    /\ \E i \in 1 .. Len(io.candidates) : io.candidates[i].kind = "DirectIpv6"


\* C35: in every reachable state of the engine, a peer with an entry in
\* active_sessions has its state machine in Active; that holds as well for
\* sessions set up after a disconnect (machine in Reconnecting) or after a
\* failed handshake (machine in Failed).
C35_ActiveSessionMeansActiveMachine ==
    \A x \in DOMAIN app :
       \A p \in DOMAIN app[x].active_sessions :
          /\ p \in DOMAIN app[x].sessions
          /\ app[x].sessions[p].state = St("Active")

\* A session request of the remote peer is accepted while the peer's machine
\* is in Reconnecting: the session is recorded and the machine stays there.
C35_Witness ==
    /\ io.op = "ControlRequest"
    /\ io.peer \notin DOMAIN io.before.active_sessions
    /\ io.before.sessions[io.peer].state = St("Reconnecting")
    /\ io.peer \in DOMAIN app[io.node].active_sessions
    /\ app[io.node].sessions[io.peer].state = St("Reconnecting")


\* C36: a session request that verify_session_request rejects adds nothing to
\* the nonce replay cache, so a forged request with nonce N never makes a
\* later genuine request with nonce N fail with ReplayDetected.
C36_RejectedRequestLeavesCache ==
    /\ (Returned /\ ~ io.ok) =>
          \A nonce \in DOMAIN nonce_cache.seen :
             /\ nonce \in DOMAIN io.before.cache.seen
             /\ nonce_cache.seen[nonce] = io.before.cache.seen[nonce]
    /\ (HasEarlier /\ ~ Earlier.ok /\ Earlier.request.nonce = io.args.request.nonce)
          => io.err # "ReplayDetected"

\* An unsigned request with nonce N is rejected with InvalidSignature and its
\* nonce is stored; the signed request with the same nonce, presented next,
\* is rejected as a replay.
C36_Witness ==
    /\ HasEarlier /\ ~ Earlier.ok
    /\ Earlier.request.signature = EmptySignature
    /\ Earlier.request.nonce = io.args.request.nonce
    /\ io.args.request.signature # EmptySignature
    /\ io.args.request.nonce \in DOMAIN io.before.cache.seen
    /\ io.before.cache.seen[io.args.request.nonce] = Earlier.now
    /\ io.err = "ReplayDetected"


(***************************************************************************)
(* CrossSpec: the two nodes of PairSpec, both started with --auto-request, *)
(* so that each sends its SessionRequest when the connection is reported   *)
(* to it and the two requests cross.  The clocks of the two machines agree *)
(* or are a millisecond apart.                                             *)
(***************************************************************************)
CrossInit ==
    /\ app = [ x \in Nodes |-> EngineApp(x, TRUE, TrustedPeers_default, TRUE) ]
    /\ \E ahead \in { 0, 1 } :
          net = [ clock |-> 0,
                  swarm |-> [ x \in Nodes |-> Swarm_new ],
                  exited |-> [ x \in Nodes |-> FALSE ],
                  wire |-> {},
                  skew |-> [ x \in Nodes |-> IF x = RemoteKey THEN ahead ELSE 0 ] ]
    /\ io = IdleIO
    /\ hist = NoHist
    /\ nonce_cache = NonceReplayCache_default
    /\ trusted_peers = TrustedPeers_default
    /\ machine = ConnectionStateMachine_default

CrossSpec == CrossInit /\ [][PairNext]_vars

\* Both nodes hold an active session for the other.
BothActive ==
    \A x \in Nodes : KeyPeerId(Other(x)) \in DOMAIN app[x].active_sessions

\* C37: whenever each of two nodes holds an active session for the other,
\* also after their automatic SessionRequests have crossed (each node accepts
\* the other's request and receives the accept of its own), the two nodes
\* hold the same session_id.
C37_BothHoldSameSessionId ==
    BothActive =>
        app[LocalKey].active_sessions[Remote] = app[RemoteKey].active_sessions[Local]

\* The requests have crossed and every message has been delivered: each node
\* is left with the session id of its own request.
C37_Witness ==
    /\ BothActive
    /\ net.wire = {}
    /\ \A x \in Nodes : app[x].pending_outbound_sessions = << >>
    /\ app[LocalKey].active_sessions[Remote] = SessionIdAt(unix_ms_at(LocalKey))
    /\ app[RemoteKey].active_sessions[Local] = SessionIdAt(unix_ms_at(RemoteKey))
    /\ unix_ms_at(LocalKey) # unix_ms_at(RemoteKey)
    /\ net.clock = 0


\* C38: nothing a remote peer or the DHT sends ends the event loop of a node:
\* a control request or response that does not decode, a device announcement
\* that does not decode or names an unparsable peer id, and a reply channel
\* found closed are dropped or logged, and the node goes on with the next
\* event.
C38_NoInputEndsTheLoop ==
    \A x \in DOMAIN net.exited : Running(x)

\* The node has stopped on a control request whose bytes do not decode.
C38_Witness ==
    /\ io.op = "ControlRequest"
    /\ io.env = EnvUndecodable
    /\ io.channel.open
    /\ ~ Running(io.node)
    /\ app[io.node] = io.before


(***************************************************************************)
(* ApplySpec: a fresh machine of any timing profile, driven by apply()     *)
(* alone.                                                                  *)
(***************************************************************************)
ApplyNext == \E trigger \in Triggers : Apply(trigger)

ApplySpec == SMInit /\ [][ApplyNext]_vars

\* The first backoff of a machine: the start value, capped by the maximum.
FirstBackoff ==
    Min(machine.timing.reconnect_backoff_start_ms, machine.timing.reconnect_backoff_max_ms)

BackoffArmed ==
    /\ Applied /\ io.result.ok
    /\ IsSome(io.result.arm_timer)
    /\ Unwrap(io.result.arm_timer)[1] = "ReconnectBackoff"

ApplyAloneBoundsCounters ==
    /\ machine.reconnect_attempts <= 1
    /\ machine.reconnect_elapsed_ms <= FirstBackoff

\* C39 as stated: in every state reached from a fresh machine by apply()
\* alone, reconnect_attempts <= 1 and reconnect_elapsed_ms <=
\* min(reconnect_backoff_start_ms, reconnect_backoff_max_ms), and every
\* ReconnectBackoff that is armed equals reconnect_backoff_start_ms.
C39_ArmedBackoffIsStartValue ==
    /\ ApplyAloneBoundsCounters
    /\ BackoffArmed =>
          Unwrap(io.result.arm_timer)[2] = machine.timing.reconnect_backoff_start_ms

\* C39, amended: in every state reached from a fresh machine by apply() alone,
\* reconnect_attempts <= 1 and reconnect_elapsed_ms <=
\* min(reconnect_backoff_start_ms, reconnect_backoff_max_ms), and every
\* ReconnectBackoff that is armed equals that minimum: the start value unless
\* the profile's maximum is below it.
C39_ArmedBackoffIsFirstBackoff ==
    /\ ApplyAloneBoundsCounters
    /\ BackoffArmed =>
          /\ Unwrap(io.result.arm_timer)[2] = FirstBackoff
          /\ machine.reconnect_attempts = 1
          /\ machine.reconnect_elapsed_ms = FirstBackoff

\* The path of an active session is lost in a profile whose maximum backoff
\* is below its start value: the maximum is armed.
C39_Witness ==
    /\ BackoffArmed
    /\ machine.timing.reconnect_backoff_max_ms < machine.timing.reconnect_backoff_start_ms
    /\ io.before.reconnect_attempts = 0
    /\ machine.reconnect_attempts = 1
    /\ Unwrap(io.result.arm_timer)[2] = machine.timing.reconnect_backoff_max_ms


\* A handler has run that found a pending outbound session for io.peer and
\* left one.
PendingKept == io.op # "none" /\ HadPending /\ StillPending

\* C40: in every reachable state of the engine every pending outbound session
\* has as many request_nonces as attempts, with 1 <= attempts <=
\* session_request_max_attempts; so the eviction of the oldest nonce never
\* drops a nonce of the pending session (a retry only appends one), and the
\* session_id stays what it was through all retries.
C40_PendingNoncesMatchAttempts ==
    /\ \A x \in DOMAIN app : \A p \in DOMAIN app[x].pending_outbound_sessions :
          LET pending == app[x].pending_outbound_sessions[p]
          IN  /\ Len(pending.request_nonces) = pending.attempts
              /\ 1 <= pending.attempts
              /\ pending.attempts <= app[x].session_request_max_attempts
    /\ PendingKept =>
          /\ PendingAfter.session_id = PendingBefore.session_id
          /\ Len(PendingAfter.request_nonces) >= Len(PendingBefore.request_nonces)
          /\ SubSeq(PendingAfter.request_nonces, 1, Len(PendingBefore.request_nonces))
                 = PendingBefore.request_nonces

\* The last retry the budget allows: the third request goes out and the
\* nonces of all three attempts are retained.
C40_Witness ==
    /\ RetryDue
    /\ PendingKept
    /\ PendingBefore.attempts = 2
    /\ PendingAfter.attempts = io.before.session_request_max_attempts
    /\ Len(PendingAfter.request_nonces) = 3
    /\ PendingAfter.request_nonces[1] = PendingBefore.request_nonces[1]
    /\ PendingAfter.request_nonces[1] # PendingAfter.request_nonces[3]


====
